---- MODULE Spec2Model ----
(***************************************************************************)
(* State-machine model of the ABSORB surface-adsorption engine.            *)
(*                                                                         *)
(* Lengths are integers in units of 0.1 Angstrom, energies are integers.   *)
(* The energy oracles (CHGNet, Lennard-Jones), the structure reader and    *)
(* the minimum-distance computation are external: each call is a           *)
(* nondeterministic choice of a value or of a raised exception.            *)
(***************************************************************************)
EXTENDS Integers, Sequences, FiniteSets, TLC

(***************************************************************************)
(* Bounds of the model.                                                    *)
(***************************************************************************)
\* largest rotation_count (number of sphere axes) explored
MaxRotationCount == 2
\* fast (Lennard-Jones) oracle returns a finite energy in 0..MaxFastEnergy
MaxFastEnergy == 1
\* authoritative (CHGNet) oracle returns an energy in 0..MaxAuthEnergy
MaxAuthEnergy == 1
\* largest number of objective evaluations of the bounded scalar minimizer
MaxNormalEvals == 2

(***************************************************************************)
(* Program constants (defaults of SurfaceAdsorptionWorkflow.__init__).     *)
(***************************************************************************)
\* float('inf'), the initial best_energy of the sphere strategy
Inf == 1000000
\* the sweep np.arange(0, 360, rotation_step) stops below 360 degrees
FullTurn == 360
\* adsorption_height = 2.0
AdsorptionHeight == 20
\* vacuum_thickness = 20.0
VacuumThickness == 200
\* surface_search_depth = 3.5
SurfaceSearchDepth == 35
\* collision_threshold = 1.2
CollisionThreshold == 12
\* knn_neighbors = 2
KnnNeighbors == 2
\* hollow_site_deduplication_distance = 1.5
DeduplicationDistance == 15
\* surface_axis = 2 (vectors are 1-based tuples, so the z axis is index 3)
SurfaceAxis == 2
\* rotation_count = 50 and rotation_step = 30
DefaultRotationCount == 50
DefaultRotationStep == 30

(***************************************************************************)
(* Vectors: 3-tuples of integers.                                          *)
(***************************************************************************)
VAdd(a, b) == <<a[1] + b[1], a[2] + b[2], a[3] + b[3]>>
VSub(a, b) == <<a[1] - b[1], a[2] - b[2], a[3] - b[3]>>
VScale(k, a) == <<k * a[1], k * a[2], k * a[3]>>
VDot(a, b) == a[1] * b[1] + a[2] * b[2] + a[3] * b[3]
VCross(a, b) == <<a[2] * b[3] - a[3] * b[2],
                  a[3] * b[1] - a[1] * b[3],
                  a[1] * b[2] - a[2] * b[1]>>
Norm2(a) == VDot(a, a)

RECURSIVE SeqSum(_)
SeqSum(s) == IF s = <<>> THEN 0 ELSE Head(s) + SeqSum(Tail(s))

RECURSIVE VSum(_)
VSum(s) == IF s = <<>> THEN <<0, 0, 0>> ELSE VAdd(Head(s), VSum(Tail(s)))

Min(a, b) == IF a <= b THEN a ELSE b
SetMax(S) == CHOOSE x \in S : \A y \in S : y <= x
SetMin(S) == CHOOSE x \in S : \A y \in S : x <= y

RECURSIVE SortedSeq(_)
SortedSeq(S) == IF S = {} THEN <<>>
                ELSE LET m == SetMin(S) IN <<m>> \o SortedSeq(S \ {m})

Sgn(x) == IF x > 0 THEN 1 ELSE IF x < 0 THEN -1 ELSE 0

(***************************************************************************)
(* Atomic structures: sequences of atoms [symbol, mass, position].         *)
(* The structure files the reader can return.  Coordinates are multiples   *)
(* of 6 so that the centroid of a 3-atom cluster is an integer vector, and *)
(* every surface layer is flat, so every cluster normal is axis-aligned.   *)
(***************************************************************************)
Atom(sym, m, pos) == [symbol |-> sym, mass |-> m, position |-> pos]

\* top layer O, A, A and one bottom atom: 1 hollow site and 1 on-top site
SubstrateOAA == << Atom("O", 16, <<0, 0, 60>>), Atom("A", 27, <<30, 0, 60>>),
                   Atom("A", 27, <<0, 30, 60>>), Atom("A", 27, <<0, 0, 0>>) >>
\* two top atoms of species A only: no hollow cluster, no on-top target
SubstrateAA == << Atom("A", 27, <<0, 0, 60>>), Atom("A", 27, <<30, 0, 60>>) >>
Substrates == {SubstrateOAA, SubstrateAA}

\* a two-atom molecule of equal masses
AdsorbateH2 == << Atom("H", 1, <<0, 0, 0>>), Atom("H", 1, <<0, 0, 8>>) >>
Adsorbates == {AdsorbateH2}

\* ase Atoms.get_center_of_mass: mass-weighted mean of the positions
CenterOfMass(atoms) ==
    LET M == SeqSum([k \in 1..Len(atoms) |-> atoms[k].mass])
        W == VSum([k \in 1..Len(atoms) |-> VScale(atoms[k].mass, atoms[k].position)])
    IN  <<W[1] \div M, W[2] \div M, W[3] \div M>>

\* ase Atoms.translate
Translate(atoms, t) ==
    [k \in 1..Len(atoms) |-> [atoms[k] EXCEPT !.position = VAdd(@, t)]]

(***************************************************************************)
(* BaseSiteFinder.get_surface_normal: the axis-aligned outward vector.     *)
(***************************************************************************)
GetSurfaceNormal(surface_axis, place_on_bottom) ==
    [k \in 1..3 |-> IF k = surface_axis + 1
                    THEN (IF place_on_bottom THEN -1 ELSE 1) ELSE 0]

(***************************************************************************)
(* SurfaceAdsorptionWorkflow._build_surface_slab: slab.center(vacuum,axis) *)
(* shifts the atoms so that the lowest one sits vacuum_thickness above the *)
(* cell origin along the surface axis.                                     *)
(***************************************************************************)
BuildSurfaceSlab(substrate, surface_axis, vacuum) ==
    LET ax == surface_axis + 1
        lo == SetMin({substrate[k].position[ax] : k \in 1..Len(substrate)})
        shift == [k \in 1..3 |-> IF k = ax THEN vacuum - lo ELSE 0]
    IN  Translate(substrate, shift)

(***************************************************************************)
(* SurfaceAdsorptionWorkflow._find_surface_atoms: indices (increasing) of  *)
(* the atoms within search_depth of the extreme coordinate.                *)
(***************************************************************************)
\* mutant: the comparisons with the surface level are strict
FindSurfaceAtomsStrict(slab, surface_axis, place_on_bottom, depth) ==
    LET ax == surface_axis + 1
        coords == {slab[k].position[ax] : k \in 1..Len(slab)}
        mask(k) == IF place_on_bottom
                   THEN slab[k].position[ax] < SetMin(coords) + depth
                   ELSE slab[k].position[ax] > SetMax(coords) - depth
    IN  SortedSeq({k \in 1..Len(slab) : mask(k)})

FindSurfaceAtoms(slab, surface_axis, place_on_bottom, depth) ==
    LET ax == surface_axis + 1
        coords == {slab[k].position[ax] : k \in 1..Len(slab)}
        mask(k) == IF place_on_bottom
                   THEN slab[k].position[ax] <= SetMin(coords) + depth
                   ELSE slab[k].position[ax] >= SetMax(coords) - depth
    IN  SortedSeq({k \in 1..Len(slab) : mask(k)})

(***************************************************************************)
(* OnTopSiteFinder.find_sites                                              *)
(***************************************************************************)
\* mutant: the species of the atom is not tested
RECURSIVE OnTopFromAll(_, _, _, _)
OnTopFromAll(indices, slab, target_atom, normal) ==
    IF indices = <<>> THEN <<>>
    ELSE <<[site |-> slab[Head(indices)].position, normal |-> normal,
            type |-> "On-Top"]>>
         \o OnTopFromAll(Tail(indices), slab, target_atom, normal)

RECURSIVE OnTopFrom(_, _, _, _)
OnTopFrom(indices, slab, target_atom, normal) ==
    IF indices = <<>> THEN <<>>
    ELSE LET atom == slab[Head(indices)]
             rest == OnTopFrom(Tail(indices), slab, target_atom, normal)
         IN  IF atom.symbol = target_atom
             THEN <<[site |-> atom.position, normal |-> normal, type |-> "On-Top"]>> \o rest
             ELSE rest

OnTopFindSites(surface_atoms_indices, slab, target_atom, surface_axis, place_on_bottom) ==
    OnTopFrom(surface_atoms_indices, slab, target_atom,
              GetSurfaceNormal(surface_axis, place_on_bottom))

(***************************************************************************)
(* HollowSiteFinder                                                        *)
(***************************************************************************)
\* squared distance of two points in the plane orthogonal to the surface axis
PlaneDist2(a, b, surface_axis) ==
    LET d == VSub(a, b)
    IN  Norm2([k \in 1..3 |-> IF k = surface_axis + 1 THEN 0 ELSE d[k]])

\* kdtree.query(coords_2d, k): the k points nearest to coords[i], nearest first
\* (the point itself comes first; equal distances are taken in index order)
RECURSIVE NearestFrom(_, _, _, _, _)
NearestFrom(coords, i, left, k, surface_axis) ==
    IF k = 0 \/ left = {} THEN <<>>
    ELSE LET key(j) == PlaneDist2(coords[i], coords[j], surface_axis)
             best == CHOOSE j \in left :
                        \A l \in left : key(j) < key(l) \/ (key(j) = key(l) /\ j <= l)
         IN  <<best>> \o NearestFrom(coords, i, left \ {best}, k - 1, surface_axis)

KdTreeQuery(coords, i, k, surface_axis) ==
    NearestFrom(coords, i, 1..Len(coords), k, surface_axis)

\* mutant: the cluster normal is never turned to the outward side
CalculateClusterNormalNoFlip(cluster_atoms, default_normal, knn_neighbors) ==
    IF knn_neighbors >= 2 /\ Len(cluster_atoms) > 2
    THEN LET cross_product == VCross(VSub(cluster_atoms[2], cluster_atoms[1]),
                                     VSub(cluster_atoms[3], cluster_atoms[1]))
         IN  IF Norm2(cross_product) > 0
             THEN [k \in 1..3 |-> Sgn(cross_product[k])]
             ELSE default_normal
    ELSE default_normal

\* HollowSiteFinder._calculate_cluster_normal.  The normalised cross product
\* is kept as its vector of signs: exact when the cross product is
\* axis-aligned, and of the same sign as the unit vector in every product
\* with an axis-aligned vector otherwise.
CalculateClusterNormal(cluster_atoms, default_normal, knn_neighbors) ==
    IF knn_neighbors >= 2 /\ Len(cluster_atoms) > 2
    THEN LET cross_product == VCross(VSub(cluster_atoms[2], cluster_atoms[1]),
                                     VSub(cluster_atoms[3], cluster_atoms[1]))
             unit == [k \in 1..3 |-> Sgn(cross_product[k])]
         IN  IF Norm2(cross_product) > 0
             THEN (IF VDot(unit, default_normal) < 0 THEN VScale(-1, unit) ELSE unit)
             ELSE default_normal
    ELSE default_normal

\* HollowSiteFinder._deduplicate_sites: greedy, in discovery order
RECURSIVE DeduplicateFrom(_, _, _)
DeduplicateFrom(unique_sites, sites, dedup) ==
    IF sites = <<>> THEN unique_sites
    ELSE LET site == Head(sites)
             is_duplicate == \E u \in 1..Len(unique_sites) :
                 dedup > 0 /\ Norm2(VSub(site.site, unique_sites[u].site)) < dedup * dedup
         IN  DeduplicateFrom(IF is_duplicate THEN unique_sites
                             ELSE Append(unique_sites, site),
                             Tail(sites), dedup)

\* mutant: the greedy pass runs from the last potential site to the first
DeduplicateSitesBackwards(sites, dedup) ==
    IF sites = <<>> THEN <<>>
    ELSE LET backwards == [k \in 1..Len(sites) |-> sites[Len(sites) + 1 - k]]
         IN  DeduplicateFrom(<<Head(backwards)>>, Tail(backwards), dedup)

\* mutant: every potential site is kept
DeduplicateSitesNone(sites, dedup) == sites

DeduplicateSites(sites, dedup) ==
    IF sites = <<>> THEN <<>>
    ELSE DeduplicateFrom(<<Head(sites)>>, Tail(sites), dedup)

\* potential_sites of find_sites: one candidate per surface atom, in the
\* order of the atoms
PotentialSites(surface_atoms_coords, knn_neighbors, surface_axis, place_on_bottom) ==
    LET away_direction == GetSurfaceNormal(surface_axis, place_on_bottom)
        cluster(i) ==
            LET idx == KdTreeQuery(surface_atoms_coords, i, knn_neighbors + 1, surface_axis)
            IN  [k \in 1..Len(idx) |-> surface_atoms_coords[idx[k]]]
        centroid(i) ==
            LET sum == VSum(cluster(i))
                n == Len(cluster(i))
            IN  <<sum[1] \div n, sum[2] \div n, sum[3] \div n>>
    IN  [i \in 1..Len(surface_atoms_coords) |->
            [site |-> centroid(i),
             normal |-> CalculateClusterNormal(cluster(i), away_direction,
                                               knn_neighbors),
             type |-> "Hollow"]]

\* HollowSiteFinder.find_sites
HollowFindSites(surface_atoms_coords, knn_neighbors, dedup, surface_axis, place_on_bottom) ==
    IF Len(surface_atoms_coords) < knn_neighbors + 1 THEN <<>>
    ELSE DeduplicateSites(PotentialSites(surface_atoms_coords, knn_neighbors,
                                         surface_axis, place_on_bottom), dedup)

(***************************************************************************)
(* SurfaceAdsorptionWorkflow._find_adsorption_sites: hollow sites first,   *)
(* then on-top sites.                                                      *)
(***************************************************************************)
FindAdsorptionSites(slab, surface_atoms_indices, c) ==
    LET coords == [k \in 1..Len(surface_atoms_indices) |->
                      slab[surface_atoms_indices[k]].position]
        hollow_sites == IF c.hollow_sites_enabled
                        THEN HollowFindSites(coords, c.knn_neighbors,
                                 c.hollow_site_deduplication_distance,
                                 c.surface_axis, c.place_on_bottom)
                        ELSE <<>>
        ontop_sites == IF c.on_top_sites_enabled
                       THEN OnTopFindSites(surface_atoms_indices, slab,
                                c.on_top_target_atom, c.surface_axis, c.place_on_bottom)
                       ELSE <<>>
    IN  hollow_sites \o ontop_sites

(***************************************************************************)
(* RotationOptimizer                                                       *)
(*                                                                         *)
(* A placed system is a sequence of atoms [symbol, mass, position, rot].   *)
(* A rotation of an atom about the adsorbate's centre of mass is kept      *)
(* symbolically in rot = [axis, angle]: Unrotated for an atom that was not *)
(* rotated, and a rotation by the angle 0 is the identity.  Sphere axes    *)
(* are numbered 1..rotation_count in generation order; NormalAxis stands   *)
(* for the site normal.                                                    *)
(***************************************************************************)
Unrotated == [axis |-> -1, angle |-> 0]
NormalAxis == 0

SystemAtom(a) == [symbol |-> a.symbol, mass |-> a.mass,
                  position |-> a.position, rot |-> Unrotated]

RotateAtom(a, axis, angle) ==
    IF angle = 0 THEN a ELSE [a EXCEPT !.rot = [axis |-> axis, angle |-> angle]]

\* mutant: the sweep includes the end point (360 degrees)
NumAnglesInclusive(rotation_step) == FullTurn \div rotation_step + 1

\* np.arange(0, 360, rotation_step) for a positive step:
\* 0, step, 2*step, ... strictly below 360, i.e. ceil(360 / step) angles
NumAngles(rotation_step) == (FullTurn + rotation_step - 1) \div rotation_step
SweepAngle(k, rotation_step) == (k - 1) * rotation_step

\* RotationOptimizer._generate_uniform_rotations: one axis per index
\* 0..num_rotations-1 (none when num_rotations <= 0)
GenerateUniformRotations(num_rotations) ==
    [j \in 1..(IF num_rotations > 0 THEN num_rotations ELSE 0) |-> j]

\* mutant: the rotation is applied to every atom of the system
GetRotatedSystemAll(axis, angle, sys, adsorbate_indices) ==
    [rotated |-> [k \in 1..Len(sys) |-> RotateAtom(sys[k], axis, angle)],
     input |-> sys]

\* RotationOptimizer._get_rotated_system: the trial system is a copy of the
\* input whose adsorbate atoms are rotated; `input` is the input system as
\* the call leaves it.
GetRotatedSystem(axis, angle, sys, adsorbate_indices) ==
    [rotated |-> [k \in 1..Len(sys) |->
                     IF k \in adsorbate_indices
                     THEN RotateAtom(sys[k], axis, angle) ELSE sys[k]],
     input |-> sys]

\* RotationOptimizer._get_rotated_system_normal: same contract, the rotated
\* adsorbate part is a copy taken from the input system.
GetRotatedSystemNormal(angle_deg, sys, adsorbate_indices) ==
    [rotated |-> [k \in 1..Len(sys) |->
                     IF k \in adsorbate_indices
                     THEN RotateAtom(sys[k], NormalAxis, angle_deg) ELSE sys[k]],
     input |-> sys]

\* mutant: any trial with a different energy replaces the best one
ImprovesOrDiffers(energy, best) == energy # best

\* mutant: a trial as good as the best so far replaces it
ImprovesOrTies(energy, best) == energy <= best

\* the comparison `energy < best_energy` of the sphere sweep
Improves(energy, best) == energy < best

(***************************************************************************)
(* Rational numbers <<numerator, denominator>> in lowest terms with a      *)
(* positive denominator: the energies of the surface mesh.  The binary     *)
(* rounding of Python floats is not modelled.                              *)
(***************************************************************************)
Abs(x) == IF x < 0 THEN -x ELSE x

RECURSIVE Gcd(_, _)
Gcd(a, b) == IF b = 0 THEN a ELSE Gcd(b, a % b)

Rat(n, d) == LET g == Gcd(Abs(n), d) IN <<n \div g, d \div g>>
RInt(n) == <<n, 1>>
\* the numerator of a over the denominator l, a multiple of its own
Over(a, l) == a[1] * (l \div a[2])
Lcm(m, n) == (m \div Gcd(m, n)) * n
RAdd(a, b) == LET l == Lcm(a[2], b[2]) IN Rat(Over(a, l) + Over(b, l), l)
RSub(a, b) == LET l == Lcm(a[2], b[2]) IN Rat(Over(a, l) - Over(b, l), l)
RLeq(a, b) == LET l == Lcm(a[2], b[2]) IN Over(a, l) <= Over(b, l)
\* a / k for an integer k > 0
RDivInt(a, k) == Rat(a[1], a[2] * k)
\* a / b for a rational b > 0
RDiv(a, b) == Rat(a[1] * b[2], a[2] * b[1])

RECURSIVE RSum(_)
RSum(s) == IF s = <<>> THEN RInt(0) ELSE RAdd(Head(s), RSum(Tail(s)))

\* np.min and np.max of a non-empty array
RMin(s) == LET k == CHOOSE k \in 1..Len(s) : \A l \in 1..Len(s) : RLeq(s[k], s[l])
           IN  s[k]
RMax(s) == LET k == CHOOSE k \in 1..Len(s) : \A l \in 1..Len(s) : RLeq(s[l], s[k])
           IN  s[k]

(***************************************************************************)
(* DelaunayTriangulator                                                    *)
(* Vertices are numbered from 1 (numpy numbers them from 0); a triangle is *)
(* a triple of vertex numbers.                                             *)
(***************************************************************************)
\* points_3d[:, axes] with the projection axis removed
ProjectTo2d(points_3d, axis) ==
    [k \in 1..Len(points_3d) |->
        IF axis = 0 THEN <<points_3d[k][2], points_3d[k][3]>>
        ELSE IF axis = 1 THEN <<points_3d[k][1], points_3d[k][3]>>
        ELSE <<points_3d[k][1], points_3d[k][2]>>]

\* twice the signed area of the triangle a, b, c
Orient(a, b, c) == (b[1] - a[1]) * (c[2] - a[2]) - (b[2] - a[2]) * (c[1] - a[1])

\* Qhull cannot build an initial simplex: every point lies on one line
Collinear(points) ==
    \A a, b, c \in 1..Len(points) : Orient(points[a], points[b], points[c]) = 0

\* d lies strictly inside the circle through a, b, c
InCircle(a, b, c, d) ==
    LET ax == a[1] - d[1]
        ay == a[2] - d[2]
        bx == b[1] - d[1]
        by == b[2] - d[2]
        cx == c[1] - d[1]
        cy == c[2] - d[2]
        det == (ax * ax + ay * ay) * (bx * cy - cx * by)
               - (bx * bx + by * by) * (ax * cy - cx * ay)
               + (cx * cx + cy * cy) * (ax * by - bx * ay)
    IN  det * Sgn(Orient(a, b, c)) > 0

\* the triangles scipy.spatial.Delaunay can return: non-degenerate, with no
\* other point strictly inside the circumcircle
DelaunayTriangles(points) ==
    {t \in (1..Len(points)) \X (1..Len(points)) \X (1..Len(points)) :
        /\ t[1] < t[2] /\ t[2] < t[3]
        /\ Orient(points[t[1]], points[t[2]], points[t[3]]) # 0
        /\ \A d \in 1..Len(points) :
              ~InCircle(points[t[1]], points[t[2]], points[t[3]], points[d])}

\* triangles in lexicographic order of their vertex numbers
TriLess(s, t) ==
    \/ s[1] < t[1]
    \/ s[1] = t[1] /\ s[2] < t[2]
    \/ s[1] = t[1] /\ s[2] = t[2] /\ s[3] < t[3]

RECURSIVE TriSeq(_)
TriSeq(S) ==
    IF S = {} THEN <<>>
    ELSE LET m == CHOOSE m \in S : \A t \in S : m = t \/ TriLess(m, t)
         IN  <<m>> \o TriSeq(S \ {m})

\* Delaunay(points).simplices.  Points in general position have one
\* triangulation, all the triangles above; four points on a circle have
\* several, and which one Qhull returns is not modelled: any non-empty
\* selection of the triangles.
Simplices(points) ==
    {TriSeq(S) : S \in (SUBSET DelaunayTriangles(points)) \ {{}}}

\* `max(edge1, edge2, edge3) <= max_edge_length`
KeepTriangle(triangle, vertices, max_edge_length) ==
    max_edge_length >= 0 /\ \A p, q \in 1..3 :
        Norm2(VSub(vertices[triangle[p]], vertices[triangle[q]]))
            <= max_edge_length * max_edge_length

\* DelaunayTriangulator.filter_large_triangles
FilterLargeTriangles(triangles, vertices, max_edge_length) ==
    SelectSeq(triangles, LAMBDA t : KeepTriangle(t, vertices, max_edge_length))

(***************************************************************************)
(* EnergyInterpolator                                                      *)
(***************************************************************************)
\* scipy.interpolate.griddata(..., method='linear') completed by the
\* nearest-neighbour values: one value per vertex, each between the least
\* and the greatest site energy; which one is not modelled
InterpolatedEnergies(site_energies, n_vertices) ==
    LET E == {site_energies[k] : k \in 1..Len(site_energies)}
    IN  [1..n_vertices -> {RInt(v) : v \in SetMin(E)..SetMax(E)}]

\* adjacency[i] of smooth_energies: the other corners of the triangles of i
Adjacency(triangles, i) ==
    UNION {{triangles[x[1]][q] : q \in (1..3) \ {x[2]}} :
              x \in {y \in (1..Len(triangles)) \X (1..3) : triangles[y[1]][y[2]] = i}}

\* one pass of the smoothing loop
SmoothPass(smoothed, triangles) ==
    [i \in 1..Len(smoothed) |->
        LET adj == SortedSeq(Adjacency(triangles, i))
            neighbor_energies == [k \in 1..Len(adj) |-> smoothed[adj[k]]]
        IN  IF Len(adj) > 0
            THEN RDivInt(RAdd(smoothed[i], RDivInt(RSum(neighbor_energies), Len(adj))), 2)
            ELSE smoothed[i]]

\* mutant: the loop runs once more than asked
RECURSIVE SmoothEnergiesOnceMore(_, _, _)
SmoothEnergiesOnceMore(energies, triangles, iterations) ==
    IF iterations < 0 THEN energies
    ELSE SmoothEnergiesOnceMore(SmoothPass(energies, triangles), triangles,
                                iterations - 1)

\* EnergyInterpolator.smooth_energies: `for _ in range(iterations)`
RECURSIVE SmoothEnergies(_, _, _)
SmoothEnergies(energies, triangles, iterations) ==
    IF iterations <= 0 THEN energies
    ELSE SmoothEnergies(SmoothPass(energies, triangles), triangles, iterations - 1)

(***************************************************************************)
(* MeshDataProcessor                                                       *)
(***************************************************************************)
HexDigits == <<"0", "1", "2", "3", "4", "5", "6", "7",
               "8", "9", "a", "b", "c", "d", "e", "f">>

\* f"#{r:02x}{g:02x}{b:02x}" for channels in 0..255, as a sequence of characters
HexColor(r, g, b) ==
    LET hex2(v) == <<HexDigits[(v \div 16) + 1], HexDigits[(v % 16) + 1]>>
    IN  <<"#">> \o hex2(r) \o hex2(g) \o hex2(b)

\* int(x) of a rational x: truncation toward zero
RTrunc(x) == IF x[1] >= 0 THEN x[1] \div x[2] ELSE -((-x[1]) \div x[2])

\* MeshDataProcessor._viridis_color
ViridisColor(value) ==
    LET inverted == RSub(RInt(1), value)
    IN  IF ~RLeq(<<1, 2>>, inverted)
        THEN \* r = int(255 * (1 - value * 2)), g = 255
             HexColor(RTrunc(Rat(255 * (inverted[2] - 2 * inverted[1]), inverted[2])),
                      255, 0)
        ELSE \* r = 255, g = int(255 * (2 - value * 2))
             HexColor(255,
                      RTrunc(Rat(255 * (2 * inverted[2] - 2 * inverted[1]), inverted[2])),
                      0)

\* MeshDataProcessor.generate_color_map with the default scheme
GenerateColorMap(energies) ==
    IF Len(energies) = 0 THEN <<>>
    ELSE LET e_min == RMin(energies)
             e_max == RMax(energies)
             normalized == [k \in 1..Len(energies) |->
                               IF e_max = e_min THEN <<1, 2>>
                               ELSE RDiv(RSub(energies[k], e_min), RSub(e_max, e_min))]
         IN  [k \in 1..Len(energies) |-> ViridisColor(normalized[k])]

\* dict.update
DictUpdate(d, u) ==
    [k \in (DOMAIN d) \cup (DOMAIN u) |-> IF k \in DOMAIN u THEN u[k] ELSE d[k]]

\* the empty dict
EmptyDict == [k \in {} |-> 0]

\* mutant: the energies exported are those of the vertices a triangle uses
PrepareMeshDataUsedVertices(vertices, triangles, energies, metadata) ==
    LET used == SortedSeq({triangles[t][p] : t \in 1..Len(triangles), p \in 1..3})
    IN  [vertices |-> vertices,
         triangles |-> triangles,
         energies |-> [k \in 1..Len(used) |-> energies[used[k]]],
         colors |-> GenerateColorMap(energies),
         metadata |-> metadata]

\* MeshDataProcessor.prepare_mesh_data for a non-empty energies array; the
\* standard deviation is kept as its square, the variance
PrepareMeshData(vertices, triangles, energies, metadata) ==
    LET n == Len(energies)
        mean == RDivInt(RSum(energies), n)
        sq(x) == Rat(x[1] * x[1], x[2] * x[2])
        variance == RDivInt(RSum([k \in 1..n |-> sq(RSub(energies[k], mean))]), n)
    IN  [vertices |-> vertices,
         triangles |-> triangles,
         energies |-> energies,
         colors |-> GenerateColorMap(energies),
         metadata |-> DictUpdate(metadata,
             [vertex_count |-> Len(vertices),
              triangle_count |-> Len(triangles),
              energy_range |-> [min |-> RMin(energies), max |-> RMax(energies),
                                mean |-> mean, std |-> variance]])]

(***************************************************************************)
(* Python values that can be passed as a keyword argument: a value carries *)
(* its type, and a str is the sequence of its characters.                  *)
(***************************************************************************)
PyBool(b) == [type |-> "bool", bool |-> b]
PyStr(s) == [type |-> "str", str |-> s]
PyInt(n) == [type |-> "int", int |-> n]
PyNone == [type |-> "NoneType"]

UpperCase == <<"A", "B", "C", "D", "E", "F", "G", "H", "I", "J", "K", "L", "M",
               "N", "O", "P", "Q", "R", "S", "T", "U", "V", "W", "X", "Y", "Z">>
LowerCase == <<"a", "b", "c", "d", "e", "f", "g", "h", "i", "j", "k", "l", "m",
               "n", "o", "p", "q", "r", "s", "t", "u", "v", "w", "x", "y", "z">>

\* str.lower() on one character: an upper-case letter becomes the lower-case
\* one, every other character is kept
CharLower(c) ==
    IF \E k \in 1..Len(UpperCase) : UpperCase[k] = c
    THEN LowerCase[CHOOSE k \in 1..Len(UpperCase) : UpperCase[k] = c]
    ELSE c

\* str.lower()
StrLower(s) == [k \in 1..Len(s) |-> CharLower(s[k])]

\* the literals 'normal' and 'sphere'
NormalStr == <<"n", "o", "r", "m", "a", "l">>
SphereStr == <<"s", "p", "h", "e", "r", "e">>

\* the stored method is written "normal" or "sphere" in the rest of the model
MethodName(s) == IF s = SphereStr THEN "sphere" ELSE "normal"

\* kwargs.get(key, default)
KwargsGet(kw, key, default) == IF key \in DOMAIN kw THEN kw[key] ELSE default

\* mutant: the string is compared without .lower()
RotationMethodCaseSensitive(rotation_method_param) ==
    IF rotation_method_param.type = "bool"
    THEN IF rotation_method_param.bool THEN "sphere" ELSE "normal"
    ELSE IF rotation_method_param.type = "str"
         THEN IF rotation_method_param.str \in {NormalStr, SphereStr}
              THEN MethodName(rotation_method_param.str)
              ELSE "normal"
         ELSE "normal"

\* the isinstance chain of __init__ that sets self.rotation_method
RotationMethod(rotation_method_param) ==
    IF rotation_method_param.type = "bool"
    THEN IF rotation_method_param.bool THEN "sphere" ELSE "normal"
    ELSE IF rotation_method_param.type = "str"
         THEN IF StrLower(rotation_method_param.str) \in {NormalStr, SphereStr}
              THEN MethodName(StrLower(rotation_method_param.str))
              ELSE "normal"
         ELSE "normal"

\* SurfaceAdsorptionWorkflow.__init__: the parameters it stores.  The numeric
\* and boolean arguments are passed with the type they are stored with, so
\* int(), float() and bool() leave them as they are.
StoredParameters(kw) ==
    [surface_axis |-> KwargsGet(kw, "surface_axis", PyInt(SurfaceAxis)).int,
     place_on_bottom |-> KwargsGet(kw, "place_on_bottom", PyBool(FALSE)).bool,
     adsorption_height |-> AdsorptionHeight,
     vacuum_thickness |-> VacuumThickness,
     surface_search_depth |-> SurfaceSearchDepth,
     collision_threshold |-> CollisionThreshold,
     hollow_sites_enabled |-> KwargsGet(kw, "hollow_sites_enabled", PyBool(TRUE)).bool,
     knn_neighbors |-> KnnNeighbors,
     hollow_site_deduplication_distance |-> DeduplicationDistance,
     on_top_sites_enabled |-> KwargsGet(kw, "on_top_sites_enabled", PyBool(TRUE)).bool,
     on_top_target_atom |-> "O",
     rotation_count |-> KwargsGet(kw, "rotation_count", PyInt(DefaultRotationCount)).int,
     rotation_step |-> DefaultRotationStep,
     rotation_method |-> RotationMethod(KwargsGet(kw, "rotation_method",
                                                  PyStr(NormalStr)))]

(***************************************************************************)
(* The energy oracles.  CalculatorFactory maps a type name to a calculator *)
(* class; every evaluation is recorded with the class that answered it.    *)
(***************************************************************************)
\* CalculatorFactory.create_calculator: the class looked up in _calculators
CreateCalculator(calculator_type) ==
    CASE calculator_type = "chgnet" -> "CHGNetCalculator"
      [] calculator_type \in {"lennard_jones", "lj"} -> "LennardJones"

\* chgnet_calc of run(): the calculator of the two reference energies
ReferenceCalculator == CreateCalculator("chgnet")

\* chgnet_calc of _place_and_optimize_adsorbate: the calculator of e_total
FinalCalculator == CreateCalculator("chgnet")

\* mutant: the optimizer is built with the CHGNet calculator
OptimizerCalculatorChgnet == CreateCalculator("chgnet")

\* RotationOptimizer(calculator=lj_calc, ...): the calculator of every trial
OptimizerCalculator == CreateCalculator("lj")

\* no oracle was evaluated yet
NoOracleCalls == [evaluations |-> <<>>, trials |-> {}]

\* get_potential_energy() outside the optimizer: one more evaluation
Evaluated(calls, calculator, purpose, site) ==
    [calls EXCEPT !.evaluations =
        Append(@, [calculator |-> calculator, purpose |-> purpose, site |-> site])]

\* get_potential_energy() on a trial system of the optimizer
TrialEvaluated(calls, calculator, site) ==
    [calls EXCEPT !.trials = @ \cup {[calculator |-> calculator, site |-> site]}]

(***************************************************************************)
(* SessionService: the result history of every session.  user_results is   *)
(* a dict, kept here as the sequence of its items in insertion order; each *)
(* value is a deque with a maximum length.                                 *)
(***************************************************************************)
\* MAX_RESULTS_PER_USER of config.py
MAX_RESULTS_PER_USER == 10

\* the keys of a dict
DictKeys(d) == {d[k].session_id : k \in 1..Len(d)}

\* d[key]
DictItem(d, key) == d[CHOOSE k \in 1..Len(d) : d[k].session_id = key]

\* deque(maxlen=maxlen).append(x): a full deque drops its oldest element
DequeAppend(deque, maxlen, x) ==
    IF maxlen = 0 THEN deque
    ELSE IF Len(deque) = maxlen THEN Append(Tail(deque), x)
    ELSE Append(deque, x)

\* list(reversed(s))
Reversed(s) == [k \in 1..Len(s) |-> s[Len(s) + 1 - k]]

\* all_results.extend(list(results)) over user_results.values()
RECURSIVE AllResults(_)
AllResults(d) ==
    IF d = <<>> THEN <<>> ELSE Head(d).results \o AllResults(Tail(d))

\* SessionService.__init__
SessionService(max_results_per_user) ==
    [max_results_per_user |-> max_results_per_user,
     user_results |-> <<>>]

\* `if 'timestamp' not in result_data: result_data['timestamp'] = now`
WithTimestamp(result_data) ==
    IF "timestamp" \in DOMAIN result_data
    THEN result_data
    ELSE result_data @@ ("timestamp" :> "now")

\* the length given to the deque of a new session
DequeMaxlen(service) == service.max_results_per_user + 1

\* SessionService.add_result: the service after the call
AddResult(service, session_id, result_data) ==
    LET created == IF session_id \in DictKeys(service.user_results)
                   THEN service.user_results
                   ELSE Append(service.user_results,
                               [session_id |-> session_id, results |-> <<>>,
                                maxlen |-> DequeMaxlen(service)])
    IN  [service EXCEPT !.user_results =
            [k \in 1..Len(created) |->
                IF created[k].session_id = session_id
                THEN [created[k] EXCEPT !.results =
                         DequeAppend(@, created[k].maxlen, WithTimestamp(result_data))]
                ELSE created[k]]]

\* SessionService.get_results: the list returned
GetResults(service, session_id) ==
    IF session_id # "None"
    THEN IF session_id \in DictKeys(service.user_results)
         THEN DictItem(service.user_results, session_id).results
         ELSE <<>>
    ELSE Reversed(AllResults(service.user_results))

\* SessionService.clear_session: the service after the call
ClearSession(service, session_id) ==
    [service EXCEPT !.user_results =
        SelectSeq(@, LAMBDA item : item.session_id # session_id)]

\* the sessions that take part
SessionIds == {"s1", "s2"}

\* nothing was added to any session, nothing was read
NoAddedResults == [s \in SessionIds |-> <<>>]
\* add_result and clear_session return None
NoReturnedResults == [called |-> FALSE]

(***************************************************************************)
(* The files of a session and the background calculation task.             *)
(***************************************************************************)
\* largest number of lines the workflow's logger writes to the log file
MaxWorkflowLines == 1
\* largest number of "waiting" events the stream yields while the log file
\* does not exist
MaxWaits == 1

\* one line of text; n tells the lines of the workflow's logger apart
Line(text, n) == [text |-> text, n |-> n]

\* a file that does not exist
NoLogFile == [exists |-> FALSE, lines |-> <<>>]

\* `with open(log_file, 'a') as f: f.write(...)`: the file after the block,
\* created when it did not exist
AppendLines(file, lines) == [exists |-> TRUE, lines |-> file.lines \o lines]

\* the log file run_calculation leaves before it builds the parameters
HandlerLog ==
    [exists |-> TRUE,
     lines |-> <<Line("[SYSTEM] Calculation session starting", 0),
                 Line("[SYSTEM] Session ID", 0),
                 Line("", 0),
                 Line("[SYSTEM] Saved substrate to", 0),
                 Line("[SYSTEM] Saved adsorbate to", 0),
                 Line("", 0)>>]

\* "[SYSTEM] Starting calculation at ...\n[SYSTEM] Session ID: ...\n\n"
InitialLogLines ==
    <<Line("[SYSTEM] Starting calculation", 0), Line("[SYSTEM] Session ID", 0),
      Line("", 0)>>

\* "\n[SYSTEM] Results packaged successfully: {zip_name}\n"
PackagedLogLines ==
    <<Line("", 0), Line("[SYSTEM] Results packaged successfully", 0)>>

\* "\n[ERROR] Calculation failed: {str(e)}\n"
FailedLogLines ==
    <<Line("", 0), Line("[ERROR] Calculation failed", 0)>>

\* the n-th line the workflow's logger writes to calculation.log
WorkflowLine(n) == Line("workflow", n)

\* f"results_{session_id}.zip"
ZipName(session_id) == <<"results_", session_id, ".zip">>

\* FileService.create_result_zip: the ZIP files after the call
CreateResultZip(zip_files, session_id) == zip_files \cup {ZipName(session_id)}

\* FileService.check_calculation_done: os.path.exists of the .done file
CheckCalculationDone(marker, session_id) == marker[session_id]

\* FileService.mark_calculation_done: the .done files after the call
MarkCalculationDone(marker, session_id) == [marker EXCEPT ![session_id] = TRUE]

\* the dict _background_calculation_task passes to add_result
HistoryEntry(session_id, zip_name, surface_axis) ==
    ("session_id" :> session_id) @@ ("filename" :> zip_name)
        @@ ("surface_axis" :> surface_axis)

\* the ways SurfaceAdsorptionWorkflow(**params).run(...) ends: with results
\* written, with an early return or no optimized site, or with an exception
WorkflowReturns == {"results", "no_results"}
WorkflowOutcomes == WorkflowReturns \cup {"raised"}

\* values of surface_axis: along the first axis, and the default along the third
SurfaceAxes == {0, 2}

\* a calculation that was not started
NoTask == [pc |-> "idle", outcome |-> "pending", surface_axis |-> 2, written |-> 0]

\* no request for the log stream was made
NoReader == [pc |-> "idle", session_id |-> "None", pos |-> 0]

\* the payloads of the stream's own events
WaitingEvent == Line("[SYSTEM] Waiting for log file to be created...", 0)
FinishedEvent == Line("[SYSTEM] Log stream finished.", 0)

\* 'complete' if is_done else 'running'
Status(is_done) == IF is_done THEN "complete" ELSE "running"

\* no request was made, no response was sent
NoRequest == [made |-> FALSE]
NoResponse == [sent |-> FALSE]

(***************************************************************************)
(* The /run-calculation handler and the validators.                        *)
(***************************************************************************)
\* a float, in tenths
PyFloat(tenths) == [type |-> "float", tenths |-> tenths]

\* an uploaded file (werkzeug FileStorage), known by its filename
FileStorage(filename) == [type |-> "file", filename |-> filename]

Digits == <<"0", "1", "2", "3", "4", "5", "6", "7", "8", "9">>
IsDigit(c) == \E k \in 1..Len(Digits) : Digits[k] = c
DigitValue(c) == (CHOOSE k \in 1..Len(Digits) : Digits[k] = c) - 1
IsDigits(s) == s # <<>> /\ \A k \in 1..Len(s) : IsDigit(s[k])

\* the value of a string of digits
RECURSIVE DigitsValue(_)
DigitsValue(s) ==
    IF s = <<>> THEN 0
    ELSE 10 * DigitsValue(SubSeq(s, 1, Len(s) - 1)) + DigitValue(s[Len(s)])

\* int(value) of a form value: the integer, or ValueError
ParseInt(s) ==
    IF IsDigits(s) THEN [raised |-> FALSE, value |-> PyInt(DigitsValue(s))]
    ELSE [raised |-> TRUE]

\* float(value) of a form value with at most one decimal: the float, or
\* ValueError
ParseFloat(s) ==
    IF IsDigits(s) THEN [raised |-> FALSE, value |-> PyFloat(10 * DigitsValue(s))]
    ELSE IF /\ Len(s) >= 3
            /\ s[Len(s) - 1] = "."
            /\ IsDigit(s[Len(s)])
            /\ IsDigits(SubSeq(s, 1, Len(s) - 2))
         THEN [raised |-> FALSE,
               value |-> PyFloat(10 * DigitsValue(SubSeq(s, 1, Len(s) - 2))
                                    + DigitValue(s[Len(s)]))]
         ELSE [raised |-> TRUE]

\* ALLOWED_EXTENSIONS
AllowedExtensions == {<<"c", "i", "f">>}

\* filename.rsplit('.', 1)[1]
AfterLastDot(filename) ==
    LET dot == CHOOSE k \in 1..Len(filename) :
                  /\ filename[k] = "."
                  /\ \A m \in (k + 1)..Len(filename) : filename[m] # "."
    IN  SubSeq(filename, dot + 1, Len(filename))

\* allowed_file
AllowedFile(filename) ==
    /\ \E k \in 1..Len(filename) : filename[k] = "."
    /\ StrLower(AfterLastDot(filename)) \in AllowedExtensions

\* no error message
NoError == <<>>

\* validate_file_upload: (is_valid, error).  A FileStorage without a filename
\* is false.
ValidateFileUpload(file_obj) ==
    IF file_obj = PyNone \/ file_obj.filename = <<>>
    THEN [is_valid |-> FALSE, error |-> <<"No file provided">>]
    ELSE IF ~AllowedFile(file_obj.filename)
    THEN [is_valid |-> FALSE,
          error |-> <<"Invalid file type. Only CIF files are allowed">>]
    ELSE [is_valid |-> TRUE, error |-> NoError]

\* DEFAULT_PARAMS
DefaultParams ==
    [surface_axis |-> PyInt(2),
     place_on_bottom |-> PyBool(FALSE),
     adsorption_height |-> PyFloat(20),
     vacuum_thickness |-> PyFloat(200),
     surface_search_depth |-> PyFloat(35),
     collision_threshold |-> PyFloat(12),
     hollow_sites_enabled |-> PyBool(TRUE),
     knn_neighbors |-> PyInt(2),
     hollow_site_deduplication_distance |-> PyFloat(15),
     on_top_sites_enabled |-> PyBool(TRUE),
     on_top_target_atom |-> PyStr(<<"O">>),
     rotation_count |-> PyInt(50),
     rotation_step |-> PyInt(30),
     rotation_method |-> PyStr(NormalStr)]

\* value.lower() in ('true', '1', 'yes')
TruthWords == {<<"t", "r", "u", "e">>, <<"1">>, <<"y", "e", "s">>}

\* the conversion of one form value to the type of the default it replaces
ConvertFormValue(default, value) ==
    IF default.type = "bool"
    THEN [raised |-> FALSE, value |-> PyBool(StrLower(value) \in TruthWords)]
    ELSE IF default.type = "int" THEN ParseInt(value)
    ELSE IF default.type = "float" THEN ParseFloat(value)
    ELSE [raised |-> FALSE, value |-> PyStr(value)]

\* `for key in request.form`: whether a conversion raises ValueError
FormRaises(form) ==
    \E key \in DOMAIN form \cap DOMAIN DefaultParams :
        ConvertFormValue(DefaultParams[key], form[key]).raised

\* params after the loop over the form, for a form whose values convert
FormParams(form) ==
    [key \in DOMAIN DefaultParams |->
        IF key \in DOMAIN form
        THEN ConvertFormValue(DefaultParams[key], form[key]).value
        ELSE DefaultParams[key]]

\* the checkbox parameters: present = True, absent = False
CheckboxParams(params, form) ==
    [params EXCEPT !["hollow_sites_enabled"] = PyBool("hollow_sites_enabled" \in DOMAIN form),
                   !["on_top_sites_enabled"] = PyBool("on_top_sites_enabled" \in DOMAIN form),
                   !["place_on_bottom"] = PyBool("place_on_bottom" \in DOMAIN form),
                   !["rotation_method"] = PyBool("rotation_method" \in DOMAIN form)]

\* os.path.join(result_dir, secure_filename(file_obj.filename))
SavedPath(session_id, file_obj) == PyStr(<<"results", session_id>> \o file_obj.filename)

\* the dict handed to validate_calculation_params
HandlerParams(rq, session_id) ==
    [substrate |-> SavedPath(session_id, rq.substrate_file),
     adsorbate |-> SavedPath(session_id, rq.adsorbate_file),
     output_folder |-> PyStr(<<"results", session_id>>),
     session_id |-> PyStr(<<session_id>>)]
        @@ CheckboxParams(FormParams(rq.form), rq.form)

\* bool(value) of a string
Truthy(value) == value.type # "str" \/ value.str # <<>>

\* required_params
RequiredParams == <<"substrate", "adsorbate", "output_folder">>

\* numeric_validations, in tenths, in the order of the dict
NumericValidations ==
    <<[param |-> "adsorption_height", min_val |-> 1, max_val |-> 100],
      [param |-> "vacuum_thickness", min_val |-> 50, max_val |-> 500],
      [param |-> "surface_search_depth", min_val |-> 5, max_val |-> 100],
      [param |-> "collision_threshold", min_val |-> 5, max_val |-> 30],
      [param |-> "knn_neighbors", min_val |-> 10, max_val |-> 100],
      [param |-> "hollow_site_deduplication_distance", min_val |-> 1, max_val |-> 50],
      [param |-> "rotation_count", min_val |-> 100, max_val |-> 2000],
      [param |-> "rotation_step", min_val |-> 10, max_val |-> 900]>>

\* float(params[param]), in tenths, of a number or a bool
ToFloat(value) ==
    IF value.type = "float" THEN value.tenths
    ELSE IF value.type = "int" THEN 10 * value.int
    ELSE IF value.bool THEN 10 ELSE 0

\* float(params[param]) raises ValueError or TypeError
FloatRaises(value) == value.type \notin {"float", "int", "bool"}

\* the parameter fails its numeric validation
OutOfRange(params, v) ==
    /\ v.param \in DOMAIN params
    /\ \/ FloatRaises(params[v.param])
       \/ ~(v.min_val <= ToFloat(params[v.param]) /\ ToFloat(params[v.param]) <= v.max_val)

\* params['rotation_method'] in ['normal', 'sphere']
RotationMethodValid(value) == value \in {PyStr(NormalStr), PyStr(SphereStr)}

\* validate_calculation_params: (is_valid, error)
ValidateCalculationParams(params) ==
    IF \E k \in 1..Len(RequiredParams) :
          RequiredParams[k] \notin DOMAIN params \/ ~Truthy(params[RequiredParams[k]])
    THEN [is_valid |-> FALSE,
          error |-> <<"Missing required parameter: ",
                      RequiredParams[CHOOSE k \in 1..Len(RequiredParams) :
                          /\ \/ RequiredParams[k] \notin DOMAIN params
                             \/ ~Truthy(params[RequiredParams[k]])
                          /\ \A m \in 1..(k - 1) :
                                /\ RequiredParams[m] \in DOMAIN params
                                /\ Truthy(params[RequiredParams[m]])]>>]
    ELSE IF \E k \in 1..Len(NumericValidations) : OutOfRange(params, NumericValidations[k])
    THEN LET first == CHOOSE k \in 1..Len(NumericValidations) :
                         /\ OutOfRange(params, NumericValidations[k])
                         /\ \A m \in 1..(k - 1) : ~OutOfRange(params, NumericValidations[m])
             value == params[NumericValidations[first].param]
         IN  [is_valid |-> FALSE,
              error |-> <<NumericValidations[first].param,
                          IF FloatRaises(value) THEN " must be a valid number"
                          ELSE " must be between min_val and max_val">>]
    ELSE IF /\ "surface_axis" \in DOMAIN params
            /\ params["surface_axis"].type # "int"
    THEN [is_valid |-> FALSE, error |-> <<"surface_axis must be an integer">>]
    ELSE IF /\ "surface_axis" \in DOMAIN params
            /\ params["surface_axis"].int \notin {0, 1, 2}
    THEN [is_valid |-> FALSE, error |-> <<"surface_axis must be 0, 1, or 2">>]
    ELSE IF /\ "rotation_method" \in DOMAIN params
            /\ ~RotationMethodValid(params["rotation_method"])
    THEN [is_valid |-> FALSE,
          error |-> <<"rotation_method must be 'normal' or 'sphere'">>]
    ELSE [is_valid |-> TRUE, error |-> NoError]

\* jsonify({'success': False, 'message': message}), code
Failure(code, message) ==
    [sent |-> TRUE, code |-> code, success |-> FALSE, message |-> message,
     session_id |-> "None"]

\* jsonify({'success': True, 'session_id': session_id, ...}), 200
Success(session_id) ==
    [sent |-> TRUE, code |-> 200, success |-> TRUE, message |-> NoError,
     session_id |-> session_id]

(***************************************************************************)
(* State of one SurfaceAdsorptionWorkflow.run.                             *)
(***************************************************************************)
VARIABLES
    cfg,              \* the parameters stored by __init__ (self.*)
    pc,               \* position of run()
    exc,              \* the exception in flight, "none" when there is none
    slab,             \* surface_slab (substrate before _build_surface_slab)
    adsorbate,        \* the loaded adsorbate
    e_slab,           \* reference energy of the bare slab
    e_adsorbate,      \* reference energy of the isolated adsorbate
    surface_atoms_indices,
    sites,            \* adsorption_sites
    i,                \* 1-based index of the site being processed
    results,          \* results of _place_and_optimize_adsorbate
    skipped,          \* its skip counter
    system,           \* the placed system handed to optimize()
    system_in,        \* the placed system as built, before optimize() ran
    trial_system,     \* the system of the latest orientation trial
    axis_j,           \* sphere sweep: index of the current axis
    angle_k,          \* sphere sweep: index of the next angle on that axis
    best,             \* best_energy, best_system, best_axis, best_angle
    trials,           \* fast-oracle evaluations made for the current site
    first_energy,     \* energy of the first trial of the current site
    min_energy,       \* least energy over all trials of the current site
    min_dist,         \* result of _get_minimum_distance for the current site
    sites_file,       \* adsorption_sites.json
    files,            \* names of the other files written
    summary,          \* site_index values in the order _save_summary logs them
    log,              \* warnings, errors and per-site outcomes logged
    cancel_requested, \* a cancellation of the run was requested
    mesh_pc,          \* position of the mesh generation call
    mesh_in,          \* its inputs: the result files, or the constructor arguments
    generator,        \* fields of the TriangleMeshGenerator
    mesh_data,        \* the value the call returned
    mesh_file,        \* surface_mesh.json
    smooth_call,      \* a call of EnergyInterpolator.smooth_energies
    kwargs,           \* the keyword arguments SurfaceAdsorptionWorkflow is built with
    oracle_calls,     \* the energy evaluations made so far, by calculator
    min_at,           \* the first trial that attained min_energy, and whether a
                      \* later trial attained it again
    session_service,  \* the SessionService object
    added_results,    \* per session, every result passed to add_result
    returned_results, \* what the latest call of the session service returned
    task,             \* per session, the background calculation task
    log_file,         \* per session, calculation.log
    done_marker,      \* per session, whether the .done file exists
    zip_files,        \* the names of the files in the zips folder
    reader,           \* the generator of one /stream-logs response
    stream,           \* the events that generator has yielded
    status,           \* per session, the latest answer of /check-status
    request,          \* a /run-calculation request
    response          \* the response to it

vars == <<cfg, pc, exc, slab, adsorbate, e_slab, e_adsorbate, surface_atoms_indices,
          sites, i, results, skipped, system, system_in, trial_system, axis_j,
          angle_k, best, trials, first_energy, min_energy, min_dist,
          sites_file, files, summary, log, cancel_requested,
          mesh_pc, mesh_in, generator, mesh_data, mesh_file, smooth_call,
          kwargs, oracle_calls, min_at,
          session_service, added_results, returned_results,
          task, log_file, done_marker, zip_files, reader, stream, status,
          request, response>>

loadVars == <<slab, adsorbate, e_slab, e_adsorbate, surface_atoms_indices, sites>>
siteVars == <<system, system_in, trial_system, axis_j, angle_k, best, trials,
              first_energy, min_energy, min_dist, min_at>>
outVars == <<sites_file, files, summary>>
meshVars == <<mesh_pc, mesh_in, generator, mesh_data, mesh_file, smooth_call>>
libVars == <<cancel_requested, meshVars>>
sessionVars == <<session_service, added_results, returned_results>>
webVars == <<task, log_file, done_marker, zip_files, reader, stream, status,
             request, response>>
svcVars == <<kwargs, sessionVars, webVars>>
\* everything of the workflow run and of the library calls
runVars == <<cfg, oracle_calls, libVars, pc, exc, loadVars, i, results, skipped, siteVars,
             outVars, log>>

\* values of the oracles
FastEnergies == (0..MaxFastEnergy) \cup {Inf}
AuthEnergies == 0..MaxAuthEnergy
\* step sizes of the sphere sweep: 4, 3 and 2 angles per axis
RotationSteps == {90, 120, 250}
\* angles the bounded scalar minimizer may probe, inside (0, 360)
NormalAngles == {120, 240}
\* minimum distances the collision check may find
MinDistances == {CollisionThreshold - 1, CollisionThreshold, CollisionThreshold + 1}

NoEnergy == -1
\* no trial was evaluated for the site
NoTrial == [trial |-> 0, tied |-> FALSE]
\* the trial that first attained the least energy so far, once trial n has
\* returned `energy` and the least energy before it was min_before
FirstMinimum(at, n, energy, min_before) ==
    IF at.trial = 0 \/ energy < min_before THEN [trial |-> n, tied |-> FALSE]
    ELSE IF energy = min_before THEN [at EXCEPT !.tied = TRUE]
    ELSE at
NoBest == [energy |-> Inf, system |-> <<>>, axis |-> -1, angle |-> -1, found |-> FALSE]
NoFile == [written |-> FALSE, sites |-> <<>>]

LogEntry(level, event, site) == [level |-> level, event |-> event, site |-> site]

\* the parameter sets explored: every sphere sweep up to MaxRotationCount
\* axes, and the normal strategy with the default sweep parameters
Configs ==
    { [surface_axis |-> SurfaceAxis,
       place_on_bottom |-> bottom,
       adsorption_height |-> AdsorptionHeight,
       vacuum_thickness |-> VacuumThickness,
       surface_search_depth |-> depth,
       collision_threshold |-> CollisionThreshold,
       hollow_sites_enabled |-> hollow,
       knn_neighbors |-> KnnNeighbors,
       hollow_site_deduplication_distance |-> DeduplicationDistance,
       on_top_sites_enabled |-> ontop,
       on_top_target_atom |-> "O",
       rotation_count |-> rc[1],
       rotation_step |-> rc[2],
       rotation_method |-> rc[3]] :
      bottom \in BOOLEAN, depth \in {SurfaceSearchDepth, -SurfaceSearchDepth},
      hollow \in BOOLEAN, ontop \in BOOLEAN,
      rc \in ((0..MaxRotationCount) \X RotationSteps \X {"sphere"})
             \cup {<<DefaultRotationCount, DefaultRotationStep, "normal">>} }
    \cup
    \* the end-to-end scenario: hollow sites only, 10 axes, steps of 90 degrees
    { [surface_axis |-> SurfaceAxis,
       place_on_bottom |-> FALSE,
       adsorption_height |-> AdsorptionHeight,
       vacuum_thickness |-> VacuumThickness,
       surface_search_depth |-> SurfaceSearchDepth,
       collision_threshold |-> CollisionThreshold,
       hollow_sites_enabled |-> TRUE,
       knn_neighbors |-> KnnNeighbors,
       hollow_site_deduplication_distance |-> DeduplicationDistance,
       on_top_sites_enabled |-> FALSE,
       on_top_target_atom |-> "O",
       rotation_count |-> 10,
       rotation_step |-> 90,
       rotation_method |-> "sphere"] }

\* no input, no generator, no returned value, no mesh file, no smoothing call
NoMeshIn == [entry |-> "none"]
NoGenerator == [constructed |-> FALSE]
NoMeshData == [kind |-> "pending"]
NoMeshFile == [written |-> FALSE]
NoSmoothCall == [calls |-> 0]

\* the mesh generation is not in use
MeshIdle ==
    /\ mesh_pc = "idle"
    /\ mesh_in = NoMeshIn
    /\ generator = NoGenerator
    /\ mesh_data = NoMeshData
    /\ mesh_file = NoMeshFile
    /\ smooth_call = NoSmoothCall

\* the workflow was built before the model starts
ConstructIdle == kwargs = EmptyDict

\* session_service = SessionService(MAX_RESULTS_PER_USER) of app.py, unused
SessionIdle ==
    /\ session_service = SessionService(MAX_RESULTS_PER_USER)
    /\ added_results = NoAddedResults
    /\ returned_results = NoReturnedResults

\* no calculation was started, no file of a session exists, no request was made
WebIdle ==
    /\ task = [s \in SessionIds |-> NoTask]
    /\ log_file = [s \in SessionIds |-> NoLogFile]
    /\ done_marker = [s \in SessionIds |-> FALSE]
    /\ zip_files = {}
    /\ reader = NoReader
    /\ stream = <<>>
    /\ status = [s \in SessionIds |-> "none"]
    /\ request = NoRequest
    /\ response = NoResponse

\* nothing of the web application is in use
ServiceIdle ==
    /\ ConstructIdle
    /\ SessionIdle
    /\ WebIdle

\* the variables of run() before it starts
RunIdle ==
    /\ exc = "none"
    /\ slab = <<>>
    /\ adsorbate = <<>>
    /\ e_slab = NoEnergy
    /\ e_adsorbate = NoEnergy
    /\ surface_atoms_indices = <<>>
    /\ sites = <<>>
    /\ i = 0
    /\ results = <<>>
    /\ skipped = 0
    /\ system = <<>>
    /\ system_in = <<>>
    /\ trial_system = <<>>
    /\ axis_j = 0
    /\ angle_k = 0
    /\ best = NoBest
    /\ trials = 0
    /\ first_energy = NoEnergy
    /\ min_energy = NoEnergy
    /\ min_dist = 0
    /\ min_at = NoTrial
    /\ oracle_calls = NoOracleCalls
    /\ sites_file = NoFile
    /\ files = {}
    /\ summary = <<>>
    /\ log = <<>>

Init ==
    /\ cfg \in Configs
    /\ pc = "load"
    /\ RunIdle
    /\ cancel_requested = FALSE
    /\ MeshIdle
    /\ ServiceIdle

(***************************************************************************)
(* run(): steps 1-5.  Any exception escaping a step is logged by the       *)
(* handler of run() and raised again.                                      *)
(***************************************************************************)
\* a step of run() raises: control passes to the handler of run()
RunRaises(e) ==
    /\ pc' = "run_except"
    /\ exc' = e

\* mutant: the handler of run() logs the error and carries on
RunExceptSwallows ==
    /\ pc = "run_except"
    /\ log' = Append(log, LogEntry("error", "workflow_failed", 0))
    /\ pc' = "surface"
    /\ UNCHANGED <<cfg, svcVars, oracle_calls, libVars, exc, loadVars, i, results, skipped, siteVars, outVars>>

\* `except Exception as e: self.logger.error(...); raise` of run()
RunExcept ==
    /\ pc = "run_except"
    /\ log' = Append(log, LogEntry("error", "workflow_failed", 0))
    /\ pc' = "raised"
    /\ UNCHANGED <<cfg, svcVars, oracle_calls, libVars, exc, loadVars, i, results, skipped, siteVars, outVars>>

\* _load_structures: ase.io.read of both files, either may fail
LoadStructures ==
    /\ pc = "load"
    /\ \/ /\ RunRaises("load_error")
          /\ UNCHANGED <<slab, adsorbate>>
       \/ /\ \E sub \in Substrates, ads \in Adsorbates :
                /\ slab' = sub
                /\ adsorbate' = ads
          /\ pc' = "build"
          /\ UNCHANGED exc
    /\ UNCHANGED log
    /\ UNCHANGED <<cfg, svcVars, oracle_calls, libVars, e_slab, e_adsorbate, surface_atoms_indices, sites, i,
                   results, skipped, siteVars, outVars>>

\* _build_surface_slab
BuildSlab ==
    /\ pc = "build"
    /\ slab' = BuildSurfaceSlab(slab, cfg.surface_axis, cfg.vacuum_thickness)
    /\ files' = files \cup {"01_built_surface.cif"}
    /\ pc' = "ref_slab"
    /\ UNCHANGED <<cfg, svcVars, oracle_calls, libVars, exc, adsorbate, e_slab, e_adsorbate, surface_atoms_indices,
                   sites, i, results, skipped, siteVars, sites_file, summary, log>>

\* e_slab = self._calculate_energy(surface_slab, chgnet_calc, ...)
ReferenceSlab ==
    /\ pc = "ref_slab"
    /\ \/ /\ RunRaises("reference_error")
          /\ UNCHANGED e_slab
       \/ /\ \E e \in AuthEnergies : e_slab' = e
          /\ pc' = "ref_adsorbate"
          /\ UNCHANGED exc
    /\ oracle_calls' = Evaluated(oracle_calls, ReferenceCalculator, "slab", 0)
    /\ UNCHANGED log
    /\ UNCHANGED <<cfg, svcVars, libVars, slab, adsorbate, e_adsorbate, surface_atoms_indices,
                   sites, i, results, skipped, siteVars, outVars>>

\* e_adsorbate = self._calculate_energy(adsorbate, chgnet_calc, ...)
ReferenceAdsorbate ==
    /\ pc = "ref_adsorbate"
    /\ \/ /\ RunRaises("reference_error")
          /\ UNCHANGED e_adsorbate
       \/ /\ \E e \in AuthEnergies : e_adsorbate' = e
          /\ pc' = "surface"
          /\ UNCHANGED exc
    /\ oracle_calls' = Evaluated(oracle_calls, ReferenceCalculator, "adsorbate", 0)
    /\ UNCHANGED log
    /\ UNCHANGED <<cfg, svcVars, libVars, slab, adsorbate, e_slab, surface_atoms_indices,
                   sites, i, results, skipped, siteVars, outVars>>

\* `if surface_atoms_coords.size == 0`
NoSurfaceAtoms(indices) == Len(indices) = 0

\* _find_surface_atoms and the empty check of run()
FindSurface ==
    /\ pc = "surface"
    /\ LET found == FindSurfaceAtoms(slab, cfg.surface_axis, cfg.place_on_bottom,
                                     cfg.surface_search_depth)
       IN  /\ surface_atoms_indices' = found
           /\ files' = files \cup {"surface_atoms.json"}
           /\ IF NoSurfaceAtoms(found)
              THEN /\ log' = Append(log, LogEntry("warning", "no_surface_atoms", 0))
                   /\ pc' = "returned"
              ELSE /\ pc' = "find_sites"
                   /\ UNCHANGED log
    /\ UNCHANGED <<cfg, svcVars, oracle_calls, libVars, exc, slab, adsorbate, e_slab, e_adsorbate, sites, i, results,
                   skipped, siteVars, sites_file, summary>>

\* mutant: the empty site list is not checked
NoSitesNever(found) == FALSE

\* `if not adsorption_sites`
NoSites(found) == found = <<>>

\* _find_adsorption_sites and the empty check of run()
FindSites ==
    /\ pc = "find_sites"
    /\ LET found == FindAdsorptionSites(slab, surface_atoms_indices, cfg)
       IN  /\ sites' = found
           /\ IF NoSites(found)
              THEN /\ log' = Append(log, LogEntry("warning", "no_sites", 0))
                   /\ pc' = "returned"
                   /\ UNCHANGED <<i, results, skipped>>
              ELSE /\ pc' = "site_loop"
                   /\ i' = 1
                   /\ results' = <<>>
                   /\ skipped' = 0
                   /\ UNCHANGED log
    /\ UNCHANGED <<cfg, svcVars, oracle_calls, libVars, exc, slab, adsorbate, e_slab, e_adsorbate,
                   surface_atoms_indices, siteVars, outVars>>

(***************************************************************************)
(* _place_and_optimize_adsorbate: the per-site loop.                       *)
(***************************************************************************)
AdsorbateIndices == (Len(slab) + 1)..(Len(slab) + Len(adsorbate))

\* _place_adsorbate: the adsorbate's centre of mass is moved to the target
PlaceAdsorbate(ads, target_position) ==
    Translate(ads, VSub(target_position, CenterOfMass(ads)))

\* system = slab.copy(); system.extend(placed_adsorbate)
PlacedSystem(site_data) ==
    LET target_pos == VAdd(site_data.site,
                           VScale(cfg.adsorption_height, site_data.normal))
        placed == PlaceAdsorbate(adsorbate, target_pos)
    IN  [k \in 1..Len(slab) |-> SystemAtom(slab[k])]
        \o [k \in 1..Len(placed) |-> SystemAtom(placed[k])]

\* a step inside the `try` of the site loop raises: control passes to the
\* handler of the loop body
SiteRaises(e) ==
    /\ pc' = "site_except"
    /\ exc' = e
    /\ UNCHANGED <<i, skipped, results, log>>

\* mutant: no handler in the loop body, the exception reaches run()
SiteExceptAborts ==
    /\ pc = "site_except"
    /\ pc' = "run_except"
    /\ UNCHANGED <<cfg, svcVars, oracle_calls, libVars, exc, loadVars, i, results, skipped, siteVars, outVars, log>>

\* `except Exception as e:` of the site loop: log, count, continue
SiteExcept ==
    /\ pc = "site_except"
    /\ log' = Append(log, LogEntry("error", exc, i))
    /\ skipped' = skipped + 1
    /\ i' = i + 1
    /\ pc' = "site_loop"
    /\ exc' = "none"
    /\ UNCHANGED <<cfg, svcVars, oracle_calls, libVars, loadVars, results, siteVars, outVars>>

\* mutant: the collision branch goes on without counting the site
SiteCollidesUncounted ==
    /\ log' = Append(log, LogEntry("warning", "collision", i))
    /\ i' = i + 1
    /\ pc' = "site_loop"
    /\ UNCHANGED <<exc, results, skipped>>

\* the collision branch: log a warning, count, continue
SiteCollides ==
    /\ log' = Append(log, LogEntry("warning", "collision", i))
    /\ skipped' = skipped + 1
    /\ i' = i + 1
    /\ pc' = "site_loop"
    /\ UNCHANGED <<exc, results>>

\* loop head: the next site is placed and its system built
StartSite ==
    /\ pc = "site_loop"
    /\ i <= Len(sites)
    /\ system' = PlacedSystem(sites[i])
    /\ system_in' = system'
    /\ trial_system' = <<>>
    /\ axis_j' = 1
    /\ angle_k' = 1
    /\ best' = NoBest
    /\ trials' = 0
    /\ first_energy' = NoEnergy
    /\ min_energy' = NoEnergy
    /\ min_dist' = 0
    /\ min_at' = NoTrial
    /\ pc' = "optimize"
    /\ UNCHANGED <<cfg, svcVars, oracle_calls, libVars, exc, loadVars, i, results, skipped, outVars, log>>

\* one (axis, angle) trial of _optimize_sphere_rotation
SphereTrial ==
    /\ pc = "optimize"
    /\ cfg.rotation_method = "sphere"
    /\ axis_j <= Len(GenerateUniformRotations(cfg.rotation_count))
    /\ LET angle == SweepAngle(angle_k, cfg.rotation_step)
           trial == GetRotatedSystem(axis_j, angle, system, AdsorbateIndices)
       IN  /\ trial_system' = trial.rotated
           /\ system' = trial.input
           /\ trials' = trials + 1
           /\ oracle_calls' = TrialEvaluated(oracle_calls, OptimizerCalculator, i)
           /\ \/ /\ SiteRaises("fast_oracle_error")
                 /\ UNCHANGED <<axis_j, angle_k, best, first_energy, min_energy, min_at>>
              \/ \E energy \in FastEnergies :
                 /\ first_energy' = IF trials = 0 THEN energy ELSE first_energy
                 /\ min_energy' = IF trials = 0 THEN energy ELSE Min(min_energy, energy)
                 /\ min_at' = FirstMinimum(min_at, trials + 1, energy, min_energy)
                 /\ best' = IF Improves(energy, best.energy)
                            THEN [energy |-> energy, system |-> trial.rotated,
                                  axis |-> axis_j, angle |-> angle, found |-> TRUE]
                            ELSE best
                 /\ IF angle_k < NumAngles(cfg.rotation_step)
                    THEN /\ angle_k' = angle_k + 1
                         /\ UNCHANGED axis_j
                    ELSE /\ angle_k' = 1
                         /\ axis_j' = axis_j + 1
                 /\ UNCHANGED <<pc, exc, i, skipped, results, log>>
    /\ UNCHANGED <<cfg, svcVars, libVars, loadVars, system_in, min_dist, outVars>>

\* mutant: the missing best system is not checked
AllRotationsFailedNever(b) == FALSE

\* `if best_system is None`
AllRotationsFailed(b) == ~b.found

\* end of the sphere sweep: raise RuntimeError or return the best trial
SphereFinish ==
    /\ pc = "optimize"
    /\ cfg.rotation_method = "sphere"
    /\ axis_j > Len(GenerateUniformRotations(cfg.rotation_count))
    /\ IF AllRotationsFailed(best)
       THEN SiteRaises("all_rotations_failed")
       ELSE /\ pc' = "collision"
            /\ UNCHANGED <<exc, i, skipped, results, log>>
    /\ UNCHANGED <<cfg, svcVars, oracle_calls, libVars, loadVars, siteVars, outVars>>

\* one evaluation of energy_func by the bounded scalar minimizer, which
\* keeps the best point it has probed
NormalTrial ==
    /\ pc = "optimize"
    /\ cfg.rotation_method = "normal"
    /\ trials < MaxNormalEvals
    /\ \E angle_deg \in NormalAngles :
       LET trial == GetRotatedSystemNormal(angle_deg, system, AdsorbateIndices)
       IN  /\ trial_system' = trial.rotated
           /\ system' = trial.input
           /\ trials' = trials + 1
           /\ oracle_calls' = TrialEvaluated(oracle_calls, OptimizerCalculator, i)
           /\ \/ /\ SiteRaises("fast_oracle_error")
                 /\ UNCHANGED <<best, first_energy, min_energy, min_at>>
              \/ \E energy \in FastEnergies :
                 /\ first_energy' = IF trials = 0 THEN energy ELSE first_energy
                 /\ min_energy' = IF trials = 0 THEN energy ELSE Min(min_energy, energy)
                 /\ min_at' = FirstMinimum(min_at, trials + 1, energy, min_energy)
                 /\ best' = IF trials = 0 \/ energy < best.energy
                            THEN [energy |-> energy, system |-> <<>>,
                                  axis |-> NormalAxis, angle |-> angle_deg,
                                  found |-> TRUE]
                            ELSE best
                 /\ UNCHANGED <<pc, exc, i, skipped, results, log>>
    /\ UNCHANGED <<cfg, svcVars, libVars, loadVars, system_in, axis_j, angle_k, min_dist, outVars>>

\* the minimizer returns: the optimized system is rebuilt from result.x
NormalFinish ==
    /\ pc = "optimize"
    /\ cfg.rotation_method = "normal"
    /\ trials >= 1
    /\ LET final == GetRotatedSystemNormal(best.angle, system, AdsorbateIndices)
       IN  /\ best' = [best EXCEPT !.system = final.rotated]
           /\ trial_system' = final.rotated
           /\ system' = final.input
    /\ pc' = "collision"
    /\ UNCHANGED <<cfg, svcVars, oracle_calls, libVars, exc, loadVars, i, results, skipped, system_in, axis_j, angle_k,
                   trials, first_energy, min_energy, min_dist, min_at, outVars, log>>

\* mutant: the collision test is off by one unit
CollidesOffByOne(d, threshold) == d < threshold - 1

\* `if min_dist < self.collision_threshold`
Collides(d, threshold) == d < threshold

\* _get_minimum_distance on the optimized system and the collision branch
CheckCollision ==
    /\ pc = "collision"
    /\ \E d \in MinDistances :
       /\ min_dist' = d
       /\ IF Collides(d, cfg.collision_threshold)
          THEN SiteCollides
          ELSE /\ pc' = "final"
               /\ UNCHANGED <<i, skipped, results, log>>
    /\ UNCHANGED <<cfg, svcVars, oracle_calls, libVars, exc, loadVars, system, system_in, trial_system, axis_j, angle_k,
                   best, trials, first_energy, min_energy, min_at, outVars>>

\* result_info (min_dist is logged with the result; the optimized system and
\* optimization_info are read back from `best`)
ResultInfo(e_total) ==
    [site_index |-> i,
     adsorption_energy |-> e_total - (e_slab + e_adsorbate),
     site_type |-> sites[i].type,
     surface_site_coordinates |-> sites[i].site,
     min_dist |-> min_dist]

\* final energy with the authoritative oracle; the result is recorded
FinalEnergy ==
    /\ pc = "final"
    /\ \/ SiteRaises("final_oracle_error")
       \/ \E e_total \in AuthEnergies :
          /\ results' = Append(results, ResultInfo(e_total))
          /\ log' = Append(log, LogEntry("info", "optimized", i))
          /\ i' = i + 1
          /\ pc' = "site_loop"
          /\ UNCHANGED <<exc, skipped>>
    /\ oracle_calls' = Evaluated(oracle_calls, FinalCalculator, "final", i)
    /\ UNCHANGED <<cfg, svcVars, libVars, loadVars, siteVars, outVars>>

(***************************************************************************)
(* run(): outputs.                                                         *)
(***************************************************************************)
\* sorted(results, key=lambda x: x['adsorption_energy']): a stable sort
RECURSIVE InsertSorted(_, _)
InsertSorted(sorted, r) ==
    IF sorted = <<>> THEN <<r>>
    ELSE IF r.adsorption_energy < Head(sorted).adsorption_energy
         THEN <<r>> \o sorted
         ELSE <<Head(sorted)>> \o InsertSorted(Tail(sorted), r)

RECURSIVE SortedResults(_)
SortedResults(rs) ==
    IF rs = <<>> THEN <<>>
    ELSE InsertSorted(SortedResults(SubSeq(rs, 1, Len(rs) - 1)), rs[Len(rs)])

\* _create_visualization_data: the 'sites' array of adsorption_sites.json,
\* one entry per result in the order of the list it is given (energies are
\* integers here, so rounding to 4 decimals changes nothing)
VisualizationSites(rs) ==
    [k \in 1..Len(rs) |-> [position |-> rs[k].surface_site_coordinates,
                           energy |-> rs[k].adsorption_energy,
                           type |-> rs[k].site_type]]

\* _save_summary: the site indices in the order of sorted_results
SaveSummary(rs) ==
    LET sorted_results == SortedResults(rs)
    IN  [k \in 1..Len(sorted_results) |-> sorted_results[k].site_index]

\* mutant: outputs are generated whether or not there are results
HasResultsAlways(rs) == TRUE

\* `if optimized_results:`
HasResults(rs) == rs # <<>>

\* the loop is over: outputs are generated from optimized_results, or the
\* empty result is reported; run() returns
GenerateOutputs ==
    /\ pc = "site_loop"
    /\ i > Len(sites)
    /\ IF HasResults(results)
       THEN /\ sites_file' = [written |-> TRUE, sites |-> VisualizationSites(results)]
            /\ summary' = SaveSummary(results)
            /\ log' = Append(log, LogEntry("info", "finished", 0))
       ELSE /\ log' = Append(Append(log, LogEntry("warning", "no_results", 0)),
                             LogEntry("info", "finished", 0))
            /\ UNCHANGED <<sites_file, summary>>
    /\ pc' = "returned"
    /\ UNCHANGED <<cfg, svcVars, oracle_calls, libVars, exc, loadVars, i, results, skipped, siteVars, files>>

Next ==
    \/ LoadStructures
    \/ RunExcept
    \/ SiteExcept
    \/ BuildSlab
    \/ ReferenceSlab
    \/ ReferenceAdsorbate
    \/ FindSurface
    \/ FindSites
    \/ StartSite
    \/ SphereTrial
    \/ SphereFinish
    \/ NormalTrial
    \/ NormalFinish
    \/ CheckCollision
    \/ FinalEnergy
    \/ GenerateOutputs

Spec == Init /\ [][Next]_vars

(***************************************************************************)
(* The site finders and the surface-atom selector called on their own:     *)
(* any surface axis, either surface, slabs whose surface is not flat, and  *)
(* index lists supplied by a caller.                                       *)
(***************************************************************************)
\* four atoms of a tilted top layer and one atom below it
SubstrateTilted == << Atom("O", 16, <<0, 0, 60>>), Atom("A", 27, <<36, 0, 66>>),
                      Atom("O", 16, <<0, 36, 54>>), Atom("A", 27, <<36, 36, 60>>),
                      Atom("A", 27, <<0, 0, 0>>) >>
FinderSlabs == Substrates \cup {SubstrateTilted}

\* surface_search_depth: the default, the tilt and the height of the tilted slab,
\* a negative one
FinderDepths == {SurfaceSearchDepth, 6, 66, -SurfaceSearchDepth}
\* hollow_site_deduplication_distance: off, below and above the site spacing
FinderDedups == {0, 6, DeduplicationDistance}

FinderConfigs ==
    [surface_axis : 0..2,
     place_on_bottom : BOOLEAN,
     surface_search_depth : FinderDepths,
     knn_neighbors : 1..KnnNeighbors,
     hollow_site_deduplication_distance : FinderDedups,
     on_top_target_atom : {"O", "A"}]

\* index lists a caller can pass: any list of at most two atoms of the slab
SuppliedIndices(atoms) ==
    {<<>>} \cup {<<a>> : a \in 1..Len(atoms)}
           \cup {<<a, b>> : a \in 1..Len(atoms), b \in 1..Len(atoms)}

FinderInit ==
    /\ cfg \in FinderConfigs
    /\ pc = "select"
    /\ RunIdle
    /\ cancel_requested = FALSE
    /\ MeshIdle
    /\ ServiceIdle

\* _find_surface_atoms called on a slab
SelectSurfaceAtoms ==
    /\ pc = "select"
    /\ \E atoms \in FinderSlabs :
          /\ slab' = atoms
          /\ surface_atoms_indices' =
                 FindSurfaceAtoms(atoms, cfg.surface_axis, cfg.place_on_bottom,
                                  cfg.surface_search_depth)
    /\ pc' = "selected"
    /\ UNCHANGED <<cfg, svcVars, oracle_calls, libVars, exc, adsorbate, e_slab, e_adsorbate, sites, i, results,
                   skipped, siteVars, outVars, log>>

\* the caller passes its own index list
SupplySurfaceAtoms ==
    /\ pc = "select"
    /\ \E atoms \in FinderSlabs :
          /\ slab' = atoms
          /\ surface_atoms_indices' \in SuppliedIndices(atoms)
    /\ pc' = "supplied"
    /\ UNCHANGED <<cfg, svcVars, oracle_calls, libVars, exc, adsorbate, e_slab, e_adsorbate, sites, i, results,
                   skipped, siteVars, outVars, log>>

\* surface_atoms_coords = positions[surface_atoms_indices]
SurfaceAtomsCoords ==
    [k \in 1..Len(surface_atoms_indices) |-> slab[surface_atoms_indices[k]].position]

\* HollowSiteFinder(...).find_sites(surface_atoms_coords)
HollowFind ==
    /\ pc \in {"selected", "supplied"}
    /\ sites' = HollowFindSites(SurfaceAtomsCoords, cfg.knn_neighbors,
                                cfg.hollow_site_deduplication_distance,
                                cfg.surface_axis, cfg.place_on_bottom)
    /\ pc' = "hollow_found"
    /\ UNCHANGED <<cfg, svcVars, oracle_calls, libVars, exc, slab, adsorbate, e_slab, e_adsorbate,
                   surface_atoms_indices, i, results, skipped, siteVars, outVars, log>>

\* OnTopSiteFinder(...).find_sites(surface_atoms_coords, surface_atoms_indices, slab)
OnTopFind ==
    /\ pc \in {"selected", "supplied"}
    /\ \/ /\ sites' = OnTopFindSites(surface_atoms_indices, slab,
                                     cfg.on_top_target_atom, cfg.surface_axis,
                                     cfg.place_on_bottom)
          /\ pc' = "ontop_found"
       \/ \* `if slab is None`: the caller passed no slab
          /\ sites' = <<>>
          /\ pc' = "ontop_no_slab"
    /\ UNCHANGED <<cfg, svcVars, oracle_calls, libVars, exc, slab, adsorbate, e_slab, e_adsorbate,
                   surface_atoms_indices, i, results, skipped, siteVars, outVars, log>>

FinderNext ==
    \/ SelectSurfaceAtoms
    \/ SupplySurfaceAtoms
    \/ HollowFind
    \/ OnTopFind

FinderSpec == FinderInit /\ [][FinderNext]_vars

(***************************************************************************)
(* The surface mesh: generate_surface_mesh_from_results on a result        *)
(* directory, and TriangleMeshGenerator.generate_mesh called directly.     *)
(***************************************************************************)
\* largest smooth_iterations explored
MaxSmoothIterations == 1
\* max_edge_length=10.0 of generate_surface_mesh_from_results
DefaultMaxEdgeLength == 100
\* smooth_iterations=1 of generate_surface_mesh_from_results
DefaultSmoothIterations == 1

\* surface_atoms.json: absent, or written by _find_surface_atoms
MissingFile == [exists |-> FALSE, content |-> <<>>]
SurfaceAtomLists ==
    { << <<0, 0, 60>>, <<30, 0, 60>> >>,
      << <<0, 0, 60>>, <<30, 0, 60>>, <<60, 0, 60>> >>,
      << <<0, 0, 60>>, <<30, 0, 60>>, <<0, 30, 60>> >>,
      << <<0, 0, 60>>, <<30, 0, 60>>, <<0, 30, 66>>, <<150, 150, 60>> >> }
SurfaceAtomFiles ==
    {MissingFile} \cup {[exists |-> TRUE, content |-> c] : c \in SurfaceAtomLists}

\* adsorption_sites.json: absent, or written by _create_visualization_data
Site(position, energy) == [position |-> position, energy |-> energy, type |-> "Hollow"]
SiteLists ==
    { << Site(<<0, 0, 60>>, 0), Site(<<30, 0, 60>>, -2) >>,
      << Site(<<0, 0, 60>>, 0), Site(<<12, 0, 60>>, -2), Site(<<30, 0, 60>>, -1) >>,
      << Site(<<0, 0, 60>>, -1), Site(<<30, 0, 60>>, -1), Site(<<0, 30, 60>>, -1) >>,
      << Site(<<0, 0, 60>>, 0), Site(<<30, 0, 60>>, -2), Site(<<0, 30, 66>>, -1) >> }
SiteFiles ==
    {MissingFile} \cup {[exists |-> TRUE, content |-> c] : c \in SiteLists}

\* max_edge_length: None, or a length
NoMaxEdge == [given |-> FALSE, length |-> 0]
MaxEdge(l) == [given |-> TRUE, length |-> l]

MeshInputs ==
    [entry : {"from_results"},
     surface_atoms : SurfaceAtomFiles,
     adsorption_sites : SiteFiles,
     surface_axis : 0..2,
     max_edge_length : {MaxEdge(DefaultMaxEdgeLength)},
     smooth_iterations : {DefaultSmoothIterations}]
    \cup
    [entry : {"generate_mesh"},
     surface_atoms : SurfaceAtomFiles \ {MissingFile},
     adsorption_sites : SiteFiles \ {MissingFile},
     surface_axis : 0..2,
     max_edge_length : {NoMaxEdge, MaxEdge(DefaultMaxEdgeLength)},
     smooth_iterations : 0..MaxSmoothIterations]

MeshInit ==
    /\ cfg \in {c \in Configs : c.rotation_count = 10}
    /\ pc = "returned"
    /\ RunIdle
    /\ cancel_requested = FALSE
    /\ mesh_pc = "call"
    /\ mesh_in \in MeshInputs
    /\ generator = NoGenerator
    /\ mesh_data = NoMeshData
    /\ mesh_file = NoMeshFile
    /\ smooth_call = NoSmoothCall
    /\ ServiceIdle

\* TriangleMeshGenerator.__init__
Generator(surface_atoms, adsorption_sites, surface_axis) ==
    [constructed |-> TRUE,
     surface_atoms |-> surface_atoms,
     adsorption_sites |-> adsorption_sites,
     surface_axis |-> surface_axis,
     has_mesh |-> FALSE,
     vertices |-> <<>>,
     triangles |-> <<>>,
     energies |-> <<>>]

\* `return None`
ReturnNone ==
    /\ mesh_data' = [kind |-> "none"]
    /\ mesh_pc' = "returned"

\* a step of the mesh generation raises
MeshRaises ==
    /\ mesh_pc' = "except"
    /\ UNCHANGED mesh_data

\* mutant: the handler lets the exception out
MeshExceptPropagates ==
    /\ mesh_pc = "except"
    /\ mesh_pc' = "raised"
    /\ UNCHANGED <<cfg, svcVars, oracle_calls, pc, exc, loadVars, i, results, skipped, siteVars, outVars, log,
                   cancel_requested, mesh_in, generator, mesh_data, mesh_file, smooth_call>>

\* `except Exception as e: print(...); return None`; an exception of a direct
\* call of generate_mesh reaches the caller
MeshExcept ==
    /\ mesh_pc = "except"
    /\ IF mesh_in.entry = "from_results"
       THEN ReturnNone
       ELSE /\ mesh_pc' = "raised"
            /\ UNCHANGED mesh_data
    /\ UNCHANGED <<cfg, svcVars, oracle_calls, pc, exc, loadVars, i, results, skipped, siteVars, outVars, log,
                   cancel_requested, mesh_in, generator, mesh_file, smooth_call>>

\* the two files are looked for and read, the sizes tested, the generator built
LoadResults ==
    /\ mesh_pc = "call"
    /\ mesh_in.entry = "from_results"
    /\ IF \/ ~mesh_in.surface_atoms.exists
          \/ ~mesh_in.adsorption_sites.exists
          \/ Len(mesh_in.surface_atoms.content) < 3
          \/ Len(mesh_in.adsorption_sites.content) < 3
       THEN /\ ReturnNone
            /\ UNCHANGED generator
       ELSE /\ generator' = Generator(mesh_in.surface_atoms.content,
                                      mesh_in.adsorption_sites.content,
                                      mesh_in.surface_axis)
            /\ mesh_pc' = "triangulate"
            /\ UNCHANGED mesh_data
    /\ UNCHANGED <<cfg, svcVars, oracle_calls, pc, exc, loadVars, i, results, skipped, siteVars, outVars, log,
                   cancel_requested, mesh_in, mesh_file, smooth_call>>

\* a caller builds the generator itself and calls generate_mesh
Construct ==
    /\ mesh_pc = "call"
    /\ mesh_in.entry = "generate_mesh"
    /\ generator' = Generator(mesh_in.surface_atoms.content,
                              mesh_in.adsorption_sites.content, mesh_in.surface_axis)
    /\ mesh_pc' = "triangulate"
    /\ UNCHANGED <<cfg, svcVars, oracle_calls, pc, exc, loadVars, i, results, skipped, siteVars, outVars, log,
                   cancel_requested, mesh_in, mesh_data, mesh_file, smooth_call>>

\* generate_mesh: vertices = surface_atoms.copy(); triangulate_surface
Triangulate ==
    /\ mesh_pc = "triangulate"
    /\ LET points == ProjectTo2d(generator.surface_atoms, generator.surface_axis)
       IN  IF Len(points) < 3 \/ Collinear(points)
           THEN /\ MeshRaises
                /\ generator' = [generator EXCEPT !.vertices = generator.surface_atoms]
           ELSE /\ \E simplices \in Simplices(points) :
                      generator' = [generator EXCEPT
                                        !.vertices = generator.surface_atoms,
                                        !.triangles = simplices]
                /\ mesh_pc' = "filter"
                /\ UNCHANGED mesh_data
    /\ UNCHANGED <<cfg, svcVars, oracle_calls, pc, exc, loadVars, i, results, skipped, siteVars, outVars, log,
                   cancel_requested, mesh_in, mesh_file, smooth_call>>

\* `if max_edge_length is not None: filter_large_triangles`
FilterTriangles ==
    /\ mesh_pc = "filter"
    /\ generator' =
           IF mesh_in.max_edge_length.given
           THEN [generator EXCEPT !.triangles =
                    FilterLargeTriangles(generator.triangles, generator.vertices,
                                         mesh_in.max_edge_length.length)]
           ELSE generator
    /\ mesh_pc' = "interpolate"
    /\ UNCHANGED <<cfg, svcVars, oracle_calls, pc, exc, loadVars, i, results, skipped, siteVars, outVars, log,
                   cancel_requested, mesh_in, mesh_data, mesh_file, smooth_call>>

\* generate_mesh: interpolate_to_vertices raises on fewer than three sites,
\* and griddata on sites that all lie on one line
Interpolate ==
    /\ mesh_pc = "interpolate"
    /\ LET site_positions == [k \in 1..Len(generator.adsorption_sites) |->
                                 generator.adsorption_sites[k].position]
           site_energies == [k \in 1..Len(generator.adsorption_sites) |->
                                generator.adsorption_sites[k].energy]
           site_positions_2d == ProjectTo2d(site_positions, generator.surface_axis)
       IN  IF Len(site_positions_2d) < 3 \/ Collinear(site_positions_2d)
           THEN /\ MeshRaises
                /\ UNCHANGED generator
           ELSE /\ \E interpolated \in
                        InterpolatedEnergies(site_energies, Len(generator.vertices)) :
                      generator' = [generator EXCEPT !.energies = interpolated]
                /\ mesh_pc' = "smooth"
                /\ UNCHANGED mesh_data
    /\ UNCHANGED <<cfg, svcVars, oracle_calls, pc, exc, loadVars, i, results, skipped, siteVars, outVars, log,
                   cancel_requested, mesh_in, mesh_file, smooth_call>>

\* `if smooth_iterations > 0: self.energies = smooth_energies(...)`
Smooth ==
    /\ mesh_pc = "smooth"
    /\ generator' =
           IF mesh_in.smooth_iterations > 0
           THEN [generator EXCEPT !.energies =
                    SmoothEnergies(generator.energies, generator.triangles,
                                   mesh_in.smooth_iterations)]
           ELSE generator
    /\ mesh_pc' = "prepare"
    /\ UNCHANGED <<cfg, svcVars, oracle_calls, pc, exc, loadVars, i, results, skipped, siteVars, outVars, log,
                   cancel_requested, mesh_in, mesh_data, mesh_file, smooth_call>>

\* the metadata generate_mesh hands to prepare_mesh_data
GeneratorMetadata(g) ==
    [surface_axis |-> g.surface_axis,
     num_sites |-> Len(g.adsorption_sites),
     num_surface_atoms |-> Len(g.surface_atoms)]

\* save_mesh: prepare_mesh_data(self.vertices, self.triangles, self.energies)
SavedMeshData(g) ==
    PrepareMeshData(g.vertices, g.triangles, g.energies, EmptyDict)

\* generate_mesh: prepare_mesh_data and return; generate_surface_mesh_from_results
\* keeps the value and goes on to save_mesh
PrepareMesh ==
    /\ mesh_pc = "prepare"
    /\ LET produced == PrepareMeshData(generator.vertices, generator.triangles,
                                       generator.energies, GeneratorMetadata(generator))
       IN  IF mesh_in.entry = "from_results"
           THEN /\ mesh_data' = [kind |-> "local", mesh |-> produced]
                /\ mesh_pc' = "save"
           ELSE /\ mesh_data' = [kind |-> "mesh", mesh |-> produced]
                /\ mesh_pc' = "returned"
    /\ generator' = [generator EXCEPT !.has_mesh = TRUE]
    /\ UNCHANGED <<cfg, svcVars, oracle_calls, pc, exc, loadVars, i, results, skipped, siteVars, outVars, log,
                   cancel_requested, mesh_in, mesh_file, smooth_call>>

\* generator.save_mesh(mesh_file); return mesh_data.  Opening the file can fail.
SaveMesh ==
    /\ mesh_pc = "save"
    /\ \/ /\ MeshRaises
          /\ UNCHANGED mesh_file
       \/ /\ mesh_file' = [written |-> TRUE, data |-> SavedMeshData(generator)]
          /\ mesh_data' = [mesh_data EXCEPT !.kind = "mesh"]
          /\ mesh_pc' = "returned"
    /\ UNCHANGED <<cfg, svcVars, oracle_calls, pc, exc, loadVars, i, results, skipped, siteVars, outVars, log,
                   cancel_requested, mesh_in, generator, smooth_call>>

\* a caller applies smooth_energies to the energies of the mesh, and then
\* once more to the result of that call
SmoothEnergiesCall ==
    /\ mesh_pc = "returned"
    /\ mesh_data.kind = "mesh"
    /\ smooth_call.calls < 2
    /\ \E iterations \in 0..MaxSmoothIterations :
          LET energies == IF smooth_call.calls = 0 THEN generator.energies
                          ELSE smooth_call.smoothed
          IN  smooth_call' =
                  [calls |-> smooth_call.calls + 1,
                   before |-> energies,
                   iterations |-> iterations,
                   smoothed |-> SmoothEnergies(energies, generator.triangles, iterations),
                   \* `smoothed = energies.copy()`: the argument is not written
                   energies |-> energies]
    /\ UNCHANGED <<cfg, svcVars, oracle_calls, pc, exc, loadVars, i, results, skipped, siteVars, outVars, log,
                   cancel_requested, mesh_pc, mesh_in, generator, mesh_data, mesh_file>>

MeshNext ==
    \/ LoadResults
    \/ Construct
    \/ Triangulate
    \/ FilterTriangles
    \/ Interpolate
    \/ Smooth
    \/ PrepareMesh
    \/ SaveMesh
    \/ MeshExcept
    \/ SmoothEnergiesCall

MeshSpec == MeshInit /\ [][MeshNext]_vars

(***************************************************************************)
(* Cancellation.  A run is started by run_calculation_async in a thread of *)
(* its own and nothing in the program carries a cancellation request to   *)
(* it: the request is an event of the environment that no step of run()   *)
(* reads.                                                                  *)
(***************************************************************************)
\* cancellation of the run in progress is requested
RequestCancel ==
    /\ ~cancel_requested
    /\ pc \notin {"returned", "raised"}
    /\ cancel_requested' = TRUE
    /\ UNCHANGED <<cfg, svcVars, oracle_calls, pc, exc, loadVars, i, results, skipped, siteVars, outVars, log,
                   meshVars>>

CancelNext ==
    \/ Next
    \/ RequestCancel

CancelSpec == Init /\ [][CancelNext]_vars

(***************************************************************************)
(* Construction of the workflow: __init__ stores the keyword arguments it  *)
(* is given, and the optimizer built from them picks its strategy.         *)
(***************************************************************************)
\* the workflow object does not exist yet
NoConfig == [constructed |-> FALSE]

\* values passed as rotation_method: both booleans, the two names in several
\* letter cases, other strings, other types
RotationMethodValues ==
    {PyBool(TRUE), PyBool(FALSE)}
    \cup {PyStr(s) : s \in {SphereStr, NormalStr,
                            <<"S", "P", "H", "E", "R", "E">>,
                            <<"S", "p", "h", "e", "r", "e">>,
                            <<"s", "p", "h", "E", "R", "e">>,
                            <<"N", "O", "R", "M", "A", "L">>,
                            <<"N", "o", "r", "m", "a", "l">>,
                            <<"s", "p", "h", "e", "r", "e", " ">>,
                            <<"s", "p", "h", "e", "r">>,
                            <<"t", "r", "u", "e">>,
                            <<"T", "r", "u", "e">>,
                            <<"1">>,
                            <<>>}}
    \cup {PyInt(0), PyInt(1), PyNone}

\* a keyword argument that is passed with one of the values, or left out
Optional(key, values) == {EmptyDict} \cup {key :> v : v \in values}

ConstructKwargs ==
    {method @@ count @@ bottom :
        method \in Optional("rotation_method", RotationMethodValues),
        count \in Optional("rotation_count", {PyInt(n) : n \in 0..MaxRotationCount}),
        bottom \in Optional("place_on_bottom", {PyBool(b) : b \in BOOLEAN})}

ConstructInit ==
    /\ cfg = NoConfig
    /\ pc = "new"
    /\ RunIdle
    /\ cancel_requested = FALSE
    /\ MeshIdle
    /\ kwargs \in ConstructKwargs
    /\ SessionIdle
    /\ WebIdle

\* SurfaceAdsorptionWorkflow(**kwargs)
WorkflowInit ==
    /\ pc = "new"
    /\ cfg' = StoredParameters(kwargs)
    /\ pc' = "constructed"
    /\ UNCHANGED <<svcVars, oracle_calls, libVars, exc, loadVars, i, results, skipped, siteVars,
                   outVars, log>>

\* RotationOptimizer(rotation_method=self.rotation_method, ...).optimize:
\* the strategy that runs
Optimize ==
    /\ pc = "constructed"
    /\ pc' = IF cfg.rotation_method = "sphere"
             THEN "sphere_rotation"
             ELSE "normal_rotation"
    /\ UNCHANGED <<cfg, svcVars, oracle_calls, libVars, exc, loadVars, i, results, skipped, siteVars,
                   outVars, log>>

ConstructNext ==
    \/ WorkflowInit
    \/ Optimize

ConstructSpec == ConstructInit /\ [][ConstructNext]_vars

(***************************************************************************)
(* The session service called on its own: results are added to two         *)
(* sessions, histories are read and cleared.                               *)
(***************************************************************************)
\* largest max_results_per_user explored
MaxResultsPerUser == 2
\* largest number of add_result calls explored
MaxAddResults == 4

\* the n-th result added to a session, with or without a timestamp of its own
ResultData(n, stamped) ==
    IF stamped
    THEN ("filename" :> n) @@ ("timestamp" :> "given")
    ELSE ("filename" :> n)

SessionInit ==
    /\ cfg \in {c \in Configs : c.rotation_count = 10}
    /\ pc = "returned"
    /\ RunIdle
    /\ cancel_requested = FALSE
    /\ MeshIdle
    /\ ConstructIdle
    /\ session_service \in {SessionService(n) : n \in 1..MaxResultsPerUser}
    /\ added_results = NoAddedResults
    /\ returned_results = NoReturnedResults
    /\ WebIdle

\* session_service.add_result(session_id, result_data)
AddResultCall ==
    /\ \E session_id \in SessionIds, stamped \in BOOLEAN :
          LET result_data == ResultData(Len(added_results[session_id]) + 1, stamped)
          IN  /\ Len(added_results[session_id]) < MaxAddResults
              /\ session_service' = AddResult(session_service, session_id, result_data)
              /\ added_results' = [added_results EXCEPT ![session_id] =
                                      Append(@, WithTimestamp(result_data))]
    /\ returned_results' = NoReturnedResults
    /\ UNCHANGED <<runVars, kwargs, webVars>>

\* session_service.get_results(session_id), or get_results() for all sessions
GetResultsCall ==
    /\ \E session_id \in SessionIds \cup {"None"} :
          returned_results' = [called |-> TRUE, session_id |-> session_id,
                               results |-> GetResults(session_service, session_id)]
    /\ UNCHANGED <<runVars, kwargs, webVars, session_service, added_results>>

\* session_service.clear_session(session_id) of a session that has a
\* history, which starts afresh
ClearSessionCall ==
    /\ \E session_id \in SessionIds :
          /\ session_id \in DictKeys(session_service.user_results)
          /\ session_service' = ClearSession(session_service, session_id)
          /\ added_results' = [added_results EXCEPT ![session_id] = <<>>]
    /\ returned_results' = NoReturnedResults
    /\ UNCHANGED <<runVars, kwargs, webVars>>

SessionNext ==
    \/ AddResultCall
    \/ GetResultsCall
    \/ ClearSessionCall

SessionSpec == SessionInit /\ [][SessionNext]_vars

(***************************************************************************)
(* The calculation service: background tasks started by                    *)
(* run_calculation_async, the status endpoint and the log stream.          *)
(***************************************************************************)
\* the services of app.py, and no calculation started yet
ServiceStart ==
    /\ cfg \in {c \in Configs : c.rotation_count = 10}
    /\ pc = "returned"
    /\ RunIdle
    /\ cancel_requested = FALSE
    /\ MeshIdle
    /\ ConstructIdle
    /\ SessionIdle
    /\ task = [s \in SessionIds |-> NoTask]
    /\ done_marker = [s \in SessionIds |-> FALSE]
    /\ zip_files = {}
    /\ reader = NoReader
    /\ stream = <<>>
    /\ status = [s \in SessionIds |-> "none"]
    /\ request = NoRequest
    /\ response = NoResponse

\* run_calculation has written the head of each session's log file
StatusInit ==
    /\ ServiceStart
    /\ log_file = [s \in SessionIds |-> HandlerLog]

\* the log files are as run_calculation leaves them, or do not exist yet
StreamInit ==
    /\ ServiceStart
    /\ \E file \in {NoLogFile, HandlerLog} : log_file = [s \in SessionIds |-> file]

\* what the steps of the background task leave alone
taskFrame == <<runVars, kwargs, added_results, returned_results, reader, stream,
               status, request, response>>

\* run_calculation_async: thread.start()
RunCalculationAsync(s) ==
    /\ task[s].pc = "idle"
    /\ \E surface_axis \in SurfaceAxes :
          task' = [task EXCEPT ![s] = [@ EXCEPT !.pc = "initial_log",
                                                !.surface_axis = surface_axis]]
    /\ UNCHANGED <<taskFrame, session_service, log_file, done_marker, zip_files>>

\* the first `with open(log_file, 'a')` block of the task
InitialLog(s) ==
    /\ task[s].pc = "initial_log"
    /\ log_file' = [log_file EXCEPT ![s] = AppendLines(@, InitialLogLines)]
    /\ task' = [task EXCEPT ![s].pc = "workflow"]
    /\ UNCHANGED <<taskFrame, session_service, done_marker, zip_files>>

\* _run_workflow: the workflow's logger writes one more line
WorkflowLogs(s) ==
    /\ task[s].pc = "workflow"
    /\ task[s].written < MaxWorkflowLines
    /\ log_file' = [log_file EXCEPT ![s] =
                       AppendLines(@, <<WorkflowLine(task[s].written + 1)>>)]
    /\ task' = [task EXCEPT ![s].written = @ + 1]
    /\ UNCHANGED <<taskFrame, session_service, done_marker, zip_files>>

\* _run_workflow returns, or raises what the workflow raised
WorkflowEnds(s) ==
    /\ task[s].pc = "workflow"
    /\ \E outcome \in WorkflowOutcomes :
          task' = [task EXCEPT ![s] =
                      [@ EXCEPT !.outcome = outcome,
                                !.pc = IF outcome \in WorkflowReturns
                                       THEN "create_zip" ELSE "except"]]
    /\ UNCHANGED <<taskFrame, session_service, log_file, done_marker, zip_files>>

\* mutant: the ZIP is made and the task goes on to the log line
ZipWithoutHistory(s) ==
    /\ task[s].pc = "create_zip"
    /\ zip_files' = CreateResultZip(zip_files, s)
    /\ task' = [task EXCEPT ![s].pc = "packaged_log"]
    /\ UNCHANGED <<taskFrame, session_service, log_file, done_marker>>

\* zip_path, zip_name = self.file_service.create_result_zip(...)
ZipResults(s) ==
    /\ task[s].pc = "create_zip"
    /\ zip_files' = CreateResultZip(zip_files, s)
    /\ task' = [task EXCEPT ![s].pc = "add_result"]
    /\ UNCHANGED <<taskFrame, session_service, log_file, done_marker>>

\* self.session_service.add_result(session_id, {...})
AddToHistory(s) ==
    /\ task[s].pc = "add_result"
    /\ session_service' =
          AddResult(session_service, s,
                    HistoryEntry(s, ZipName(s), task[s].surface_axis))
    /\ task' = [task EXCEPT ![s].pc = "packaged_log"]
    /\ UNCHANGED <<taskFrame, log_file, done_marker, zip_files>>

\* the `with` block that writes "Results packaged successfully"; the try
\* block ends and the finally clause is next
PackagedLog(s) ==
    /\ task[s].pc = "packaged_log"
    /\ log_file' = [log_file EXCEPT ![s] = AppendLines(@, PackagedLogLines)]
    /\ task' = [task EXCEPT ![s].pc = "finally"]
    /\ UNCHANGED <<taskFrame, session_service, done_marker, zip_files>>

\* mutant: the handler ends the task, no finally clause follows
ExceptWithoutFinally(s) ==
    /\ task[s].pc = "except"
    /\ log_file' = [log_file EXCEPT ![s] = AppendLines(@, FailedLogLines)]
    /\ task' = [task EXCEPT ![s].pc = "terminated"]
    /\ UNCHANGED <<taskFrame, session_service, done_marker, zip_files>>

\* `except Exception as e`: the error line is written to the log file
ExceptHandler(s) ==
    /\ task[s].pc = "except"
    /\ log_file' = [log_file EXCEPT ![s] = AppendLines(@, FailedLogLines)]
    /\ task' = [task EXCEPT ![s].pc = "finally"]
    /\ UNCHANGED <<taskFrame, session_service, done_marker, zip_files>>

\* `finally: self.file_service.mark_calculation_done(session_id)`; the
\* thread ends
Finally(s) ==
    /\ task[s].pc = "finally"
    /\ done_marker' = MarkCalculationDone(done_marker, s)
    /\ task' = [task EXCEPT ![s].pc = "terminated"]
    /\ UNCHANGED <<taskFrame, session_service, log_file, zip_files>>

\* one step of the background task of session s
TaskStep(s) ==
    \/ InitialLog(s)
    \/ WorkflowLogs(s)
    \/ WorkflowEnds(s)
    \/ ZipResults(s)
    \/ AddToHistory(s)
    \/ PackagedLog(s)
    \/ ExceptHandler(s)
    \/ Finally(s)

\* what the requests of a client leave alone
clientFrame == <<runVars, kwargs, sessionVars, task, log_file, done_marker,
                 zip_files, request, response>>

\* GET /check-status/<session_id>
CheckStatus(s) ==
    /\ status' = [status EXCEPT ![s] = Status(CheckCalculationDone(done_marker, s))]
    /\ UNCHANGED <<clientFrame, reader, stream>>

\* GET /stream-logs/<session_id>: the generator starts
StreamLogs(s) ==
    /\ reader.pc = "idle"
    /\ reader' = [pc |-> "wait_file", session_id |-> s, pos |-> 0]
    /\ UNCHANGED <<clientFrame, stream, status>>

\* `while not os.path.exists(log_file)`: yield the waiting event and sleep,
\* or open the file
WaitForFile ==
    /\ reader.pc = "wait_file"
    /\ IF log_file[reader.session_id].exists
       THEN /\ reader' = [reader EXCEPT !.pc = "readline"]
            /\ UNCHANGED stream
       ELSE /\ Len(stream) < MaxWaits
            /\ stream' = Append(stream, WaitingEvent)
            /\ UNCHANGED reader
    /\ UNCHANGED <<clientFrame, status>>

\* `line = f.readline()`: a line is yielded; at the end of the file the
\* empty string is returned
ReadLine ==
    /\ reader.pc = "readline"
    /\ LET lines == log_file[reader.session_id].lines
       IN  IF reader.pos < Len(lines)
           THEN /\ stream' = Append(stream, lines[reader.pos + 1])
                /\ reader' = [reader EXCEPT !.pos = @ + 1]
           ELSE /\ reader' = [reader EXCEPT !.pc = "check_done"]
                /\ UNCHANGED stream
    /\ UNCHANGED <<clientFrame, status>>

\* `if file_service.check_calculation_done(session_id)`: the last event and
\* break, or sleep and read again
CheckDone ==
    /\ reader.pc = "check_done"
    /\ IF CheckCalculationDone(done_marker, reader.session_id)
       THEN /\ stream' = Append(stream, FinishedEvent)
            /\ reader' = [reader EXCEPT !.pc = "closed"]
       ELSE /\ reader' = [reader EXCEPT !.pc = "readline"]
            /\ UNCHANGED stream
    /\ UNCHANGED <<clientFrame, status>>

\* the calculations and the status endpoint
StatusNext ==
    \/ \E s \in SessionIds : RunCalculationAsync(s)
    \/ \E s \in SessionIds : TaskStep(s)
    \/ \E s \in SessionIds : CheckStatus(s)

StatusSpec == StatusInit /\ [][StatusNext]_vars

\* a started thread keeps being scheduled until it ends, and the page keeps
\* polling the status
FairStatusSpec ==
    /\ StatusSpec
    /\ \A s \in SessionIds : WF_vars(TaskStep(s))
    /\ \A s \in SessionIds : WF_vars(CheckStatus(s))

\* the calculations and one log stream
StreamNext ==
    \/ \E s \in SessionIds : RunCalculationAsync(s)
    \/ \E s \in SessionIds : TaskStep(s)
    \/ \E s \in SessionIds : StreamLogs(s)
    \/ WaitForFile
    \/ ReadLine
    \/ CheckDone

StreamSpec == StreamInit /\ [][StreamNext]_vars

(***************************************************************************)
(* One POST /run-calculation request.                                      *)
(***************************************************************************)
\* a string as the sequence of its characters
CifName == <<"a", ".", "c", "i", "f">>
UpperCifName == <<"a", ".", "C", "I", "F">>
TextName == <<"a", ".", "t", "x", "t">>
BareName == <<"c", "i", "f">>
OnStr == <<"o", "n">>

\* the files a request uploads under one name
UploadedFiles ==
    {PyNone, FileStorage(<<>>), FileStorage(CifName), FileStorage(UpperCifName),
     FileStorage(TextName), FileStorage(BareName)}

\* the forms explored: each field absent or with one of a few values
Forms ==
    {method @@ count @@ height @@ axis @@ bottom :
        method \in Optional("rotation_method", {SphereStr, NormalStr, OnStr}),
        count \in Optional("rotation_count", {<<"5", "0">>, <<"5">>, <<"x">>}),
        height \in Optional("adsorption_height", {<<"2", ".", "5">>, <<"0", ".", "0">>}),
        axis \in Optional("surface_axis", {<<"0">>, <<"3">>}),
        bottom \in Optional("place_on_bottom", {OnStr})}

Requests ==
    {[made |-> TRUE, substrate_file |-> substrate_file,
      adsorbate_file |-> adsorbate_file, form |-> form] :
        substrate_file \in UploadedFiles,
        adsorbate_file \in {PyNone, FileStorage(CifName), FileStorage(TextName)},
        form \in Forms}

RequestInit ==
    /\ cfg \in {c \in Configs : c.rotation_count = 10}
    /\ pc = "returned"
    /\ RunIdle
    /\ cancel_requested = FALSE
    /\ MeshIdle
    /\ ConstructIdle
    /\ SessionIdle
    /\ task = [s \in SessionIds |-> NoTask]
    /\ log_file = [s \in SessionIds |-> NoLogFile]
    /\ done_marker = [s \in SessionIds |-> FALSE]
    /\ zip_files = {}
    /\ reader = NoReader
    /\ stream = <<>>
    /\ status = [s \in SessionIds |-> "none"]
    /\ request \in Requests
    /\ response = NoResponse

\* str(uuid.uuid4()): an identifier no calculation has used
NewSessionId == CHOOSE s \in SessionIds : task[s].pc = "idle" /\ ~log_file[s].exists

\* the log file after `with open(log_file, 'w')`
LogHead == [exists |-> TRUE, lines |-> SubSeq(HandlerLog.lines, 1, 3)]

\* POST /run-calculation, from the session id to the response
RunCalculation ==
    /\ request.made
    /\ ~response.sent
    /\ LET session_id == NewSessionId
           substrate_check == ValidateFileUpload(request.substrate_file)
           adsorbate_check == ValidateFileUpload(request.adsorbate_file)
           params == HandlerParams(request, session_id)
           params_check == ValidateCalculationParams(params)
       IN  IF ~substrate_check.is_valid
           THEN /\ response' = Failure(400, <<"Substrate file: ">> \o substrate_check.error)
                /\ log_file' = [log_file EXCEPT ![session_id] = LogHead]
                /\ UNCHANGED task
           ELSE IF ~adsorbate_check.is_valid
           THEN /\ response' = Failure(400, <<"Adsorbate file: ">> \o adsorbate_check.error)
                /\ log_file' = [log_file EXCEPT ![session_id] = LogHead]
                /\ UNCHANGED task
           ELSE IF FormRaises(request.form)
           THEN /\ response' = Failure(500, <<"ValueError">>)
                /\ log_file' = [log_file EXCEPT ![session_id] = HandlerLog]
                /\ UNCHANGED task
           ELSE IF ~params_check.is_valid
           THEN /\ response' = Failure(400, params_check.error)
                /\ log_file' = [log_file EXCEPT ![session_id] = HandlerLog]
                /\ UNCHANGED task
           ELSE /\ response' = Success(session_id)
                /\ log_file' = [log_file EXCEPT ![session_id] = HandlerLog]
                /\ task' = [task EXCEPT ![session_id] =
                               [@ EXCEPT !.pc = "initial_log",
                                         !.surface_axis = params["surface_axis"].int]]
    /\ UNCHANGED <<runVars, kwargs, sessionVars, done_marker, zip_files, reader,
                   stream, status, request>>

RequestNext == RunCalculation

RequestSpec == RequestInit /\ [][RequestNext]_vars

(***************************************************************************)
(* Properties.                                                             *)
(***************************************************************************)
Last(s) == s[Len(s)]

\* the log entries written for site s
SiteEntries(s) == {k \in 1..Len(log) : log[k].site = s}

\* C1: whenever adsorption_sites.json has been written, its 'sites' array is
\* ordered by non-decreasing adsorption energy (so its first entry has the
\* minimum energy of all results).
C1_SitesFileSorted ==
    sites_file.written =>
        \A k \in 1..(Len(sites_file.sites) - 1) :
            sites_file.sites[k].energy <= sites_file.sites[k + 1].energy

\* C2: every recorded result has a minimum adsorbate-slab distance that is
\* at least collision_threshold; and a site whose minimum distance is below
\* the threshold is skipped: the skip counter grows by one, no result is
\* recorded, the final-energy step is not entered and the loop goes on to
\* the next site.
C2_CollisionFilter ==
    /\ [](\A k \in 1..Len(results) : results[k].min_dist >= cfg.collision_threshold)
    /\ [][(pc = "collision" /\ min_dist' < cfg.collision_threshold)
            => /\ skipped' = skipped + 1
               /\ results' = results
               /\ pc' = "site_loop"
               /\ i' = i + 1]_vars
    /\ [](pc = "final" => min_dist >= cfg.collision_threshold)

\* C2 witness: the first site was skipped for a collision and the second
\* site, at exactly the threshold distance, was recorded.
C2_Witness ==
    /\ Len(results) = 1
    /\ results[1].site_index = 2
    /\ results[1].min_dist = cfg.collision_threshold
    /\ \E k \in SiteEntries(1) : log[k].event = "collision"

\* C3: an exception raised by the optimizer or by an energy oracle while site
\* i is processed is caught by the handler of the loop body: the skip counter
\* grows by one, the results recorded so far are kept as they are, no result
\* is recorded for site i, and the loop continues with site i+1; the run is
\* not aborted and every site ends up processed exactly once.
C3_PerSiteExceptionCaught ==
    /\ [][pc = "site_except"
            => /\ skipped' = skipped + 1
               /\ results' = results
               /\ i' = i + 1
               /\ pc' = "site_loop"]_vars
    /\ [](pc = "site_except" => \A k \in 1..Len(results) : results[k].site_index < i)
    /\ [](\A k \in 1..Len(results) :
            \A l \in SiteEntries(results[k].site_index) : log[l].level # "error")
    /\ [](sites # <<>> => pc \notin {"run_except", "raised"})
    /\ []((pc = "returned" /\ sites # <<>>)
            => \A s \in 1..Len(sites) : Cardinality(SiteEntries(s)) = 1)

\* C3 witness: the run has returned, the first site failed with an exception
\* and the second site was processed afterwards and recorded.
C3_Witness ==
    /\ pc = "returned"
    /\ Len(sites) = 2
    /\ \E k \in SiteEntries(1) : log[k].level = "error"
    /\ Len(results) = 1
    /\ results[1].site_index = 2

\* C4: a failure while loading a structure file or while computing one of
\* the two reference energies is fatal: run() raises, and neither surface-atom
\* selection nor site discovery nor per-site processing has taken place or
\* takes place afterwards, and adsorption_sites.json is not written.
C4_FatalFailures ==
    /\ [][(pc \in {"load", "ref_slab", "ref_adsorbate"} /\ exc' # "none")
            => pc' = "run_except"]_vars
    /\ [][pc = "run_except" => pc' = "raised"]_vars
    /\ [][pc # "raised"]_vars
    /\ [](pc \in {"run_except", "raised"}
            => /\ exc \in {"load_error", "reference_error"}
               /\ surface_atoms_indices = <<>>
               /\ "surface_atoms.json" \notin files
               /\ sites = <<>>
               /\ i = 0
               /\ results = <<>>
               /\ system = <<>>
               /\ ~sites_file.written)

\* C4 witness: run() has raised because the adsorbate's reference energy
\* failed after the slab's had been computed.
C4_Witness ==
    /\ pc = "raised"
    /\ exc = "reference_error"
    /\ e_slab # NoEnergy
    /\ e_adsorbate = NoEnergy

\* C5: when surface-atom selection finds no atom, or the enabled finders
\* find no site, run() returns without an exception and without processing
\* a site: no system is built, no trial is evaluated, no result is produced
\* and adsorption_sites.json is not written.
C5_EmptySelectionReturns ==
    /\ [][(pc = "surface" /\ surface_atoms_indices' = <<>>) => pc' = "returned"]_vars
    /\ [][(pc = "find_sites" /\ sites' = <<>>) => pc' = "returned"]_vars
    /\ []((pc \notin {"load", "build", "ref_slab", "ref_adsorbate", "surface", "find_sites"}
           /\ exc \notin {"load_error", "reference_error"}
           /\ (surface_atoms_indices = <<>> \/ sites = <<>>))
            => /\ pc = "returned"
               /\ exc = "none"
               /\ i = 0
               /\ system = <<>>
               /\ trials = 0
               /\ results = <<>>
               /\ summary = <<>>
               /\ ~sites_file.written)

\* C5 witness: surface atoms were selected, the enabled finders returned no
\* site, and run() has returned.
C5_Witness ==
    /\ pc = "returned"
    /\ surface_atoms_indices # <<>>
    /\ sites = <<>>

\* C6: when sites were found and every one of them was skipped, run()
\* returns (it does not raise), nothing is ranked and no site file is
\* written; the log carries the "no results" warning, whereas a crash ends
\* in the raised state with the "workflow failed" error.
C6_NoResultsOutcome ==
    /\ [][(pc = "site_loop" /\ i > Len(sites) /\ results = <<>>)
            => pc' = "returned"]_vars
    /\ []((pc = "returned" /\ sites # <<>> /\ results = <<>>)
            => /\ skipped = Len(sites)
               /\ ~sites_file.written
               /\ summary = <<>>
               /\ \E k \in 1..Len(log) : log[k] = LogEntry("warning", "no_results", 0)
               /\ \A k \in 1..Len(log) : log[k].event # "workflow_failed")
    /\ [](pc = "raised" => Last(log) = LogEntry("error", "workflow_failed", 0))
    /\ [](pc = "returned" => \A k \in 1..Len(log) : log[k].event # "workflow_failed")

\* C6 witness: two sites were found, one was skipped for a collision and the
\* other for an exception, and run() has returned with no result.
C6_Witness ==
    /\ pc = "returned"
    /\ Len(sites) = 2
    /\ results = <<>>
    /\ \E k \in 1..Len(log) : log[k].event = "collision"
    /\ \E k \in 1..Len(log) : log[k].level = "error"

\* C7: with the sphere strategy, an optimization that runs to its end (it
\* returns, or fails for want of a usable trial) has evaluated the fast
\* oracle exactly rotation_count * (number of multiples of rotation_step in
\* 0..359) times; 10 axes and steps of 90 degrees give 40 trials.
C7_SphereTrialCount ==
    /\ 10 * NumAngles(90) = 40
    /\ (/\ cfg.rotation_method = "sphere"
        /\ \/ pc \in {"collision", "final"}
           \/ (pc = "site_except" /\ exc = "all_rotations_failed"))
        => trials = cfg.rotation_count
                    * Cardinality({a \in 0..359 : a % cfg.rotation_step = 0})

\* C7 witness: the sphere sweep with 10 axes and steps of 90 degrees has
\* returned after 40 trials.
C7_Witness ==
    /\ cfg.rotation_method = "sphere"
    /\ cfg.rotation_count = 10
    /\ cfg.rotation_step = 90
    /\ pc = "collision"
    /\ trials = 40

\* the sphere sweep has visited every axis
SweepDone == axis_j > Len(GenerateUniformRotations(cfg.rotation_count))

\* C8: with the sphere strategy, the first trial evaluated is the identity
\* rotation (angle 0 on the first axis, the system as placed), and the
\* energy the optimizer returns is the minimum over all evaluated trials,
\* hence at most the energy of that first trial.
C8_SphereReturnsMinimum ==
    /\ [][(cfg.rotation_method = "sphere" /\ pc = "optimize" /\ trials = 0 /\ trials' = 1)
            => /\ axis_j = 1
               /\ SweepAngle(angle_k, cfg.rotation_step) = 0
               /\ trial_system' = system_in]_vars
    /\ []((cfg.rotation_method = "sphere" /\ pc \in {"collision", "final"})
            => /\ trials >= 1
               /\ best.found
               /\ best.energy = min_energy
               /\ best.energy <= first_energy)

\* C8 witness: the sphere sweep has returned an energy strictly below the
\* energy of the identity rotation.
C8_Witness ==
    /\ cfg.rotation_method = "sphere"
    /\ pc = "collision"
    /\ best.energy < first_energy

\* C9: when the sphere sweep ends without a usable trial (no trial at all,
\* or no trial below +infinity), the optimizer raises; the handler of the
\* loop body logs an error "all rotations failed" for the site, whereas a
\* collision is logged as a warning "collision": the two outcomes leave
\* different records, and neither records a result.
C9_ZeroTrialsDistinctFromCollision ==
    /\ [][(pc = "optimize" /\ cfg.rotation_method = "sphere" /\ SweepDone
           /\ (trials = 0 \/ min_energy = Inf))
            => (pc' = "site_except" /\ exc' = "all_rotations_failed")]_vars
    /\ [][(pc = "site_except" /\ exc = "all_rotations_failed")
            => /\ log' = Append(log, LogEntry("error", "all_rotations_failed", i))
               /\ results' = results]_vars
    /\ [][(pc = "collision" /\ pc' = "site_loop")
            => /\ log' = Append(log, LogEntry("warning", "collision", i))
               /\ results' = results]_vars
    /\ [](\A k \in 1..Len(log) :
            /\ log[k].event = "all_rotations_failed" => log[k].level = "error"
            /\ log[k].event = "collision" => log[k].level = "warning")

\* C9 witness: a sweep over zero axes has failed and the failure is in the
\* log as an error for site 1.
C9_Witness ==
    /\ cfg.rotation_count = 0
    /\ trials = 0
    /\ Len(log) >= 1
    /\ log[1] = LogEntry("error", "all_rotations_failed", 1)

\* C10: in every trial system and in the system the optimizer returns, of
\* either strategy, the slab atoms are where they are in the input system,
\* and the input system is as it was when optimize() was called.
C10_SlabUntouched ==
    /\ system = system_in
    /\ trial_system # <<>>
         => /\ Len(trial_system) = Len(system_in)
            /\ \A k \in 1..Len(slab) :
                  /\ trial_system[k].position = system_in[k].position
                  /\ trial_system[k].rot = system_in[k].rot
    /\ best.system # <<>>
         => /\ Len(best.system) = Len(system_in)
            /\ \A k \in 1..Len(slab) :
                  /\ best.system[k].position = system_in[k].position
                  /\ best.system[k].rot = system_in[k].rot

\* C10 witness: the sphere sweep has returned a system whose adsorbate atoms
\* are rotated.
C10_Witness ==
    /\ cfg.rotation_method = "sphere"
    /\ pc = "collision"
    /\ \A k \in AdsorbateIndices : best.system[k].rot # Unrotated

(***************************************************************************)
(* Properties of the site finders and of the surface-atom selector         *)
(* (FinderSpec).                                                           *)
(***************************************************************************)
\* the outward vector of the finder's configuration
Outward == GetSurfaceNormal(cfg.surface_axis, cfg.place_on_bottom)

\* the raw cross product of the cluster of surface atom a, before it is
\* normalised and turned outward
ClusterCross(a) ==
    LET idx == KdTreeQuery(SurfaceAtomsCoords, a, cfg.knn_neighbors + 1, cfg.surface_axis)
        c == [k \in 1..Len(idx) |-> SurfaceAtomsCoords[idx[k]]]
    IN  VCross(VSub(c[2], c[1]), VSub(c[3], c[1]))

\* C11: every site returned by the hollow finder or by the on-top finder has
\* a normal whose dot product with the axis-aligned outward vector (+1 on the
\* surface axis for the top, -1 for the bottom) is >= 0, for every surface
\* axis and both values of the placement flag.
C11_NormalsPointOutward ==
    pc \in {"hollow_found", "ontop_found"} =>
        \A k \in 1..Len(sites) : VDot(sites[k].normal, Outward) >= 0

\* a three-atom cluster whose cross product points inward was turned outward
C11_Witness ==
    /\ pc = "hollow_found"
    /\ cfg.knn_neighbors = 2
    /\ Len(SurfaceAtomsCoords) >= 3
    /\ VDot(ClusterCross(1), Outward) < 0
    /\ sites # <<>>
    /\ sites[1].normal # Outward
    /\ VDot(sites[1].normal, Outward) > 0

\* C12: any two distinct sites returned by one call of the hollow finder are
\* at least deduplication_distance apart.
C12_HollowSitesApart ==
    pc = "hollow_found" =>
        \A a, b \in 1..Len(sites) :
            a # b =>
                \/ cfg.hollow_site_deduplication_distance <= 0
                \/ Norm2(VSub(sites[a].site, sites[b].site))
                       >= cfg.hollow_site_deduplication_distance
                          * cfg.hollow_site_deduplication_distance

\* two sites were accepted and at least one potential site was dropped
C12_Witness ==
    /\ pc = "hollow_found"
    /\ cfg.hollow_site_deduplication_distance = DeduplicationDistance
    /\ Len(sites) >= 2
    /\ Len(sites) < Len(SurfaceAtomsCoords)

\* the entries of surface_atoms_indices whose atom is of the target species
TargetEntries ==
    SelectSeq(surface_atoms_indices,
              LAMBDA a : slab[a].symbol = cfg.on_top_target_atom)

\* C13: the on-top finder returns exactly one site per entry of
\* surface_atoms_indices whose atom is of the target species, in the order of
\* surface_atoms_indices; the site's position is the atom's position and its
\* normal the outward vector; entries of other species give no site.
C13_OnTopSites ==
    pc = "ontop_found" =>
        /\ Len(sites) = Len(TargetEntries)
        /\ \A k \in 1..Len(sites) :
              /\ sites[k].site = slab[TargetEntries[k]].position
              /\ sites[k].normal = Outward
              /\ sites[k].type = "On-Top"

\* a list out of index order with one entry of the target species and one of another
C13_Witness ==
    /\ pc = "ontop_found"
    /\ Len(surface_atoms_indices) = 2
    /\ surface_atoms_indices[1] > surface_atoms_indices[2]
    /\ Len(sites) = 1
    /\ sites[1].site = slab[surface_atoms_indices[1]].position

\* C14: the selector returns exactly the atoms, by index in increasing
\* order, whose coordinate on the surface axis is >= max - search_depth (top)
\* or <= min + search_depth (bottom), and no other atom.
C14_SurfaceAtomsSelected ==
    pc = "selected" =>
        LET coord(k) == slab[k].position[cfg.surface_axis + 1]
            atoms == 1..Len(slab)
            selected == {surface_atoms_indices[k] : k \in 1..Len(surface_atoms_indices)}
        IN  /\ \A k \in 1..(Len(surface_atoms_indices) - 1) :
                  surface_atoms_indices[k] < surface_atoms_indices[k + 1]
            /\ selected \subseteq atoms
            /\ \A a \in atoms :
                  a \in selected <=>
                      IF cfg.place_on_bottom
                      THEN \E lo \in atoms :
                              /\ \A b \in atoms : coord(lo) <= coord(b)
                              /\ coord(a) <= coord(lo) + cfg.surface_search_depth
                      ELSE \E hi \in atoms :
                              /\ \A b \in atoms : coord(b) <= coord(hi)
                              /\ coord(a) >= coord(hi) - cfg.surface_search_depth

\* an atom exactly search_depth below the top is selected, one further is not
C14_Witness ==
    /\ pc = "selected"
    /\ ~cfg.place_on_bottom
    /\ Len(surface_atoms_indices) < Len(slab)
    /\ \E k \in 1..Len(surface_atoms_indices), a \in 1..Len(slab) :
          /\ slab[surface_atoms_indices[k]].position[cfg.surface_axis + 1]
                 = slab[a].position[cfg.surface_axis + 1] - cfg.surface_search_depth
          /\ \A b \in 1..Len(slab) :
                 slab[b].position[cfg.surface_axis + 1]
                     <= slab[a].position[cfg.surface_axis + 1]

(***************************************************************************)
(* Properties of the surface mesh (MeshSpec).                              *)
(***************************************************************************)
\* generate_mesh returned a mesh (to the caller, or to
\* generate_surface_mesh_from_results)
MeshProduced == mesh_data.kind \in {"mesh", "local"}

\* C15: in every mesh generate_mesh produces, with or without the
\* max_edge_length filter and for any number of smoothing iterations, every
\* index of every triangle is a valid vertex index, and the energies and the
\* colors have exactly one entry per vertex.
C15_MeshWellFormed ==
    MeshProduced =>
        LET m == mesh_data.mesh
        IN  /\ \A t \in 1..Len(m.triangles) :
                  \A p \in 1..3 : m.triangles[t][p] \in 1..Len(m.vertices)
            /\ Len(m.energies) = Len(m.vertices)
            /\ Len(m.colors) = Len(m.vertices)

\* a smoothed mesh of four vertices from which the filter removed a triangle
C15_Witness ==
    /\ mesh_data.kind = "mesh"
    /\ mesh_in.max_edge_length.given
    /\ mesh_in.smooth_iterations > 0
    /\ Len(mesh_data.mesh.vertices) = 4
    /\ Len(mesh_data.mesh.triangles) = 1
    /\ Len(mesh_data.mesh.energies) = 4

\* the inputs generate_surface_mesh_from_results refuses
MeshInputsRefused ==
    \/ ~mesh_in.surface_atoms.exists
    \/ ~mesh_in.adsorption_sites.exists
    \/ Len(mesh_in.surface_atoms.content) < 3
    \/ Len(mesh_in.adsorption_sites.content) < 3

C17_ZeroIterationsIsIdentity ==
    (smooth_call.calls > 0 /\ smooth_call.iterations = 0) =>
        /\ smooth_call.smoothed = smooth_call.before
        /\ smooth_call.energies = smooth_call.before

\* 0 further iterations applied to a result that an earlier call changed
C17_Witness ==
    /\ smooth_call.calls = 2
    /\ smooth_call.iterations = 0
    /\ smooth_call.before # generator.energies
    /\ smooth_call.smoothed = smooth_call.before

\* position of an energy in the range of the mesh, 0 at the least energy
\* and 1 at the greatest
RangePosition(energies, k) ==
    RDiv(RSub(energies[k], RMin(energies)), RSub(RMax(energies), RMin(energies)))

\* the linear blend green (0) - yellow (1/2) - red (1)
GreenYellowRed(position) ==
    IF RLeq(position, <<1, 2>>)
    THEN HexColor(RTrunc(Rat(255 * 2 * position[1], position[2])), 255, 0)
    ELSE HexColor(255,
                  RTrunc(Rat(255 * 2 * (position[2] - position[1]), position[2])), 0)

\* C18: with the default scheme and energies that are not all equal, the
\* vertex of least energy is pure green (#00ff00), the vertex of greatest
\* energy pure red (#ff0000), a vertex at the midpoint yellow (#ffff00), and
\* the color is the linear blend between these points.
C18_GreenToRed ==
    (MeshProduced /\ RMin(mesh_data.mesh.energies) # RMax(mesh_data.mesh.energies)) =>
        \A k \in 1..Len(mesh_data.mesh.energies) :
            mesh_data.mesh.colors[k]
                = GreenYellowRed(RangePosition(mesh_data.mesh.energies, k))

\* C19: the mesh file written after a successful generation holds vertices,
\* triangles, energies, colors and a metadata object with vertex_count,
\* triangle_count, energy_range, surface_axis, num_sites and
\* num_surface_atoms: the fields of the mesh that generate_mesh returned.
C19_MeshFileFields ==
    mesh_file.written =>
        /\ DOMAIN mesh_file.data
               = {"vertices", "triangles", "energies", "colors", "metadata"}
        /\ {"vertex_count", "triangle_count", "energy_range", "surface_axis",
            "num_sites", "num_surface_atoms"} \subseteq DOMAIN mesh_file.data.metadata
        /\ DOMAIN mesh_file.data.metadata = DOMAIN mesh_data.mesh.metadata

(***************************************************************************)
(* Properties of cancellation (CancelSpec).                                *)
(***************************************************************************)
\* the loop head takes the next site
SiteStarted == pc = "site_loop" /\ pc' = "optimize"

\* C20: the orchestrator checks a cancellation signal between sites: once
\* cancellation is requested no further site is started, and every result
\* computed before the request is kept.
C20_CancellationBetweenSites ==
    [][cancel_requested =>
          /\ ~SiteStarted
          /\ Len(results') >= Len(results)
          /\ SubSeq(results', 1, Len(results)) = results]_vars

(***************************************************************************)
(* C21: rotation_method is stored as one of two values.                    *)
(***************************************************************************)
\* two strings that differ at most in the case of their letters
EqualIgnoringCase(s, t) ==
    /\ Len(s) = Len(t)
    /\ \A k \in 1..Len(s) :
          \/ s[k] = t[k]
          \/ \E j \in 1..Len(UpperCase) : {s[k], t[k]} = {UpperCase[j], LowerCase[j]}

\* the argument asks for the sphere strategy: True, or 'sphere' in any case
AsksForSphere(kw) ==
    /\ "rotation_method" \in DOMAIN kw
    /\ \/ kw["rotation_method"] = PyBool(TRUE)
       \/ /\ kw["rotation_method"].type = "str"
          /\ EqualIgnoringCase(kw["rotation_method"].str, SphereStr)

\* C21: whatever is passed as rotation_method (a boolean, a string in any
\* letter case, any other string, any other type, or nothing), the workflow
\* stores 'sphere' when the value is True or 'sphere' case-insensitively and
\* 'normal' in every other case, and the optimizer runs the strategy stored.
C21_RotationMethodNormalised ==
    pc # "new" =>
        /\ cfg.rotation_method \in {"normal", "sphere"}
        /\ cfg.rotation_method = "sphere" <=> AsksForSphere(kwargs)
        /\ pc = "sphere_rotation" => cfg.rotation_method = "sphere"
        /\ pc = "normal_rotation" => cfg.rotation_method = "normal"

\* 'sphere' written in mixed case was passed and the sphere strategy runs
C21_Witness ==
    /\ pc = "sphere_rotation"
    /\ "rotation_method" \in DOMAIN kwargs
    /\ kwargs["rotation_method"] = PyStr(<<"s", "p", "h", "E", "R", "e">>)
    /\ cfg.rotation_method = "sphere"

(***************************************************************************)
(* C22: where each oracle is used.                                         *)
(***************************************************************************)
\* the evaluations answered by the authoritative oracle, outside the trials
AuthoritativeEvaluations ==
    {k \in 1..Len(oracle_calls.evaluations) :
        oracle_calls.evaluations[k].calculator = "CHGNetCalculator"}

\* C22: within one run the authoritative oracle (CHGNet) is evaluated only
\* for the two reference energies, once each, and at most once per site, for
\* a site whose optimized system passed the collision check; every
\* orientation trial of the optimizer, with either strategy, is evaluated
\* with the fast oracle (Lennard-Jones) and never with the authoritative one.
C22_OracleUse ==
    /\ [](\A t \in oracle_calls.trials : t.calculator = "LennardJones")
    /\ [](\A k \in AuthoritativeEvaluations :
            LET call == oracle_calls.evaluations[k]
            IN  /\ call.purpose \in {"slab", "adsorbate", "final"}
                /\ \A m \in AuthoritativeEvaluations :
                      (m # k /\ oracle_calls.evaluations[m].purpose = call.purpose)
                          => /\ call.purpose = "final"
                             /\ oracle_calls.evaluations[m].site # call.site
                /\ call.purpose = "final"
                      => /\ call.site \in 1..Len(sites)
                         /\ \A e \in SiteEntries(call.site) : log[e].event # "collision")
    /\ [][Len(oracle_calls.evaluations') > Len(oracle_calls.evaluations)
            => \/ pc \in {"ref_slab", "ref_adsorbate"}
               \/ /\ pc = "final"
                  /\ min_dist >= cfg.collision_threshold
                  /\ Last(oracle_calls.evaluations').site = i]_vars

\* C22 witness: both strategies aside, a run over two sites in which the first
\* site collided after its trials and the second was evaluated: the
\* authoritative oracle answered three times, the fast one for both sites.
C22_Witness ==
    /\ pc = "returned"
    /\ Len(sites) = 2
    /\ \E e \in SiteEntries(1) : log[e].event = "collision"
    /\ Len(results) = 1
    /\ [k \in 1..Len(oracle_calls.evaluations) |-> oracle_calls.evaluations[k].purpose]
          = <<"slab", "adsorbate", "final">>
    /\ oracle_calls.evaluations[3].site = 2
    /\ {t.site : t \in oracle_calls.trials} = {1, 2}

(***************************************************************************)
(* C23: the history of a session is capped.                                *)
(***************************************************************************)
\* the last n elements of s, all of s when it has fewer
LastN(s, n) == IF Len(s) <= n THEN s ELSE SubSeq(s, Len(s) - n + 1, Len(s))

\* C23: for each session, get_results(session_id) returns at most
\* max_results_per_user entries after any sequence of add_result calls for
\* that session, and they are the most recently added ones, in insertion
\* order.
C23_HistoryCapped ==
    (returned_results.called /\ returned_results.session_id # "None") =>
        /\ Len(returned_results.results) <= session_service.max_results_per_user
        /\ returned_results.results =
               LastN(added_results[returned_results.session_id],
                     session_service.max_results_per_user)

(***************************************************************************)
(* C24: the hollow finder removes duplicates greedily, in discovery order. *)
(***************************************************************************)
\* the candidates of the call that has returned, one per surface atom
Candidates ==
    IF Len(SurfaceAtomsCoords) < cfg.knn_neighbors + 1 THEN <<>>
    ELSE PotentialSites(SurfaceAtomsCoords, cfg.knn_neighbors, cfg.surface_axis,
                        cfg.place_on_bottom)

\* candidates a and b are strictly closer than the deduplication distance
TooClose(a, b) ==
    /\ cfg.hollow_site_deduplication_distance > 0
    /\ Norm2(VSub(Candidates[a].site, Candidates[b].site))
           < cfg.hollow_site_deduplication_distance
             * cfg.hollow_site_deduplication_distance

\* K is what a greedy pass in discovery order accepts: a candidate is in K
\* exactly when no earlier member of K is too close to it
GreedyAccepted(K) ==
    \A k \in 1..Len(Candidates) :
        k \in K <=> ~\E j \in K : j < k /\ TooClose(j, k)

\* the candidates of K, in discovery order
Picked(K) == LET order == SortedSeq(K)
             IN  [m \in 1..Len(order) |-> Candidates[order[m]]]

\* the sites the same call returns for the surface atoms in reverse order
SitesOfReversedAtoms ==
    HollowFindSites(Reversed(SurfaceAtomsCoords), cfg.knn_neighbors,
                    cfg.hollow_site_deduplication_distance, cfg.surface_axis,
                    cfg.place_on_bottom)

\* C24: the hollow finder makes one candidate per surface atom, in atom
\* order, and removes duplicates greedily in that order: the first candidate
\* is always accepted, a later candidate is rejected if and only if it is
\* strictly closer than deduplication_distance to a site accepted before it,
\* and the list returned is the subsequence of accepted candidates.
C24_GreedyDeduplication ==
    pc = "hollow_found" =>
        /\ Len(Candidates) \in {0, Len(surface_atoms_indices)}
        /\ Candidates # <<>> => sites # <<>> /\ sites[1] = Candidates[1]
        /\ \E K \in SUBSET (1..Len(Candidates)) :
              /\ GreedyAccepted(K)
              /\ sites = Picked(K)

\* C24 witness: a later candidate was rejected for being close to, and not
\* equal to, an accepted one, and the same atoms in reverse order give other
\* sites: the result depends on the order of the input.
C24_Witness ==
    /\ pc = "hollow_found"
    /\ \E k \in 2..Len(Candidates) :
          /\ \A a \in 1..Len(sites) : sites[a].site # Candidates[k].site
          /\ \E j \in 1..(k - 1) : TooClose(j, k)
    /\ {sites[a].site : a \in 1..Len(sites)}
           # {SitesOfReversedAtoms[a].site : a \in 1..Len(SitesOfReversedAtoms)}

(***************************************************************************)
(* C25: ties of the sphere strategy go to the first trial.                 *)
(***************************************************************************)
\* the angles of one axis, np.arange(0, 360, rotation_step): their number
AnglesPerAxis == Cardinality({k \in 0..(FullTurn - 1) : k * cfg.rotation_step < FullTurn})

\* trial n in enumeration order: axes are the outer loop, angles the inner
\* one, increasing from 0
AxisOfTrial(n) == ((n - 1) \div AnglesPerAxis) + 1
AngleOfTrial(n) == ((n - 1) % AnglesPerAxis) * cfg.rotation_step

\* C25: with the sphere strategy the optimizer returns the system, the axis
\* and the angle of the first trial, in enumeration order (axes outer loop,
\* angles increasing from 0 inner loop), that attained the minimum energy,
\* also when later trials attained it again; a later trial replaces the
\* current best only if its energy is strictly lower.
C25_FirstMinimumWins ==
    /\ []((cfg.rotation_method = "sphere" /\ pc \in {"collision", "final"})
            => /\ best.energy = min_energy
               /\ best.axis = AxisOfTrial(min_at.trial)
               /\ best.angle = AngleOfTrial(min_at.trial)
               /\ best.system = GetRotatedSystem(best.axis, best.angle, system_in,
                                                 AdsorbateIndices).rotated)
    /\ [][(cfg.rotation_method = "sphere" /\ pc = "optimize" /\ best.found
             /\ best' # best)
            => best'.energy < best.energy]_vars

\* C25 witness: the sweep made at least three trials, the minimum was first
\* attained by a trial after the first one and attained again later, and the
\* optimizer returned.
C25_Witness ==
    /\ cfg.rotation_method = "sphere"
    /\ pc = "collision"
    /\ trials >= 3
    /\ min_at.trial > 1
    /\ min_at.trial < trials
    /\ min_at.tied
    /\ best.energy < first_energy

(***************************************************************************)
(* C26: every site is accounted for once.                                  *)
(***************************************************************************)
\* the per-site loop has run over every site
LoopFinished ==
    /\ sites # <<>>
    /\ \/ pc = "site_loop" /\ i > Len(sites)
       \/ pc = "returned"

\* C26: after the per-site loop has finished, the number of recorded results
\* plus the skip counter equals the number of sites; each site contributes at
\* most one result; and the results carry distinct, strictly increasing
\* 1-based site_index values, each equal to the position of its site in the
\* concatenated site list, in which hollow sites come before on-top sites.
C26_SitesAccountedFor ==
    /\ LoopFinished => Len(results) + skipped = Len(sites)
    /\ pc = "site_loop" => Len(results) + skipped = i - 1
    /\ \A k \in 1..Len(results) :
          /\ results[k].site_index \in 1..Len(sites)
          /\ results[k].surface_site_coordinates = sites[results[k].site_index].site
          /\ results[k].site_type = sites[results[k].site_index].type
          /\ \A m \in 1..Len(results) :
                k < m => results[k].site_index < results[m].site_index
    /\ \A a, b \in 1..Len(sites) :
          (sites[a].type = "On-Top" /\ sites[b].type = "Hollow") => b < a

\* C26 witness: of a hollow site followed by an on-top site, the first was
\* skipped for an exception and the second recorded with site_index 2.
C26_Witness ==
    /\ LoopFinished
    /\ pc = "returned"
    /\ Len(sites) = 2
    /\ sites[1].type = "Hollow"
    /\ sites[2].type = "On-Top"
    /\ skipped = 1
    /\ \E e \in SiteEntries(1) : log[e].level = "error"
    /\ Len(results) = 1
    /\ results[1].site_index = 2

(***************************************************************************)
(* C27: every started calculation is marked done, for good.                *)
(***************************************************************************)
\* run_calculation_async was called for the session
Started(s) == task[s].pc # "idle"

\* C27: every calculation started by run_calculation_async is eventually
\* marked done, whichever way the workflow ended; once the background task
\* has terminated check_calculation_done is true, and it stays true, so the
\* status endpoint eventually reports 'complete' and never goes back to
\* 'running'.
C27_EventuallyDone ==
    /\ \A s \in SessionIds : Started(s) ~> CheckCalculationDone(done_marker, s)
    /\ \A s \in SessionIds : Started(s) ~> (status[s] = "complete")
    /\ [](\A s \in SessionIds :
             task[s].pc = "terminated" => CheckCalculationDone(done_marker, s))
    /\ [][\A s \in SessionIds :
             /\ CheckCalculationDone(done_marker, s)
                   => CheckCalculationDone(done_marker', s)
             /\ status[s] = "complete" => status'[s] = "complete"]_vars

\* C27 witness: one workflow returned results, the other raised, both tasks
\* have terminated and the status endpoint answered 'complete' for both.
C27_Witness ==
    /\ task["s1"].pc = "terminated"
    /\ task["s1"].outcome = "results"
    /\ task["s2"].pc = "terminated"
    /\ task["s2"].outcome = "raised"
    /\ \A s \in SessionIds :
          CheckCalculationDone(done_marker, s) /\ status[s] = "complete"

(***************************************************************************)
(* C28: a finished calculation has its ZIP and its history entry.          *)
(***************************************************************************)
\* the result ZIP of the session exists
HasZip(s) == ZipName(s) \in zip_files

\* get_results(s) holds the entry of the session's ZIP
InHistory(s) ==
    LET history == GetResults(session_service, s)
    IN  \E k \in 1..Len(history) :
           /\ history[k]["session_id"] = s
           /\ history[k]["filename"] = ZipName(s)

Delivered == SelectSeq(stream, LAMBDA e : e \notin {WaitingEvent, FinishedEvent})

\* C29: under every interleaving of the background task, which appends log
\* lines and then writes the done marker, with the log-stream reader, the
\* stream has delivered every line appended to the log file before the
\* marker was written when it emits the final 'Log stream finished' event;
\* the task appends nothing after the marker, so these are all the lines of
\* the file.
C29_NoLineLost ==
    reader.pc = "closed"
        => /\ stream[Len(stream)] = FinishedEvent
           /\ Delivered = log_file[reader.session_id].lines

(***************************************************************************)
(* C30: a valid request starts a calculation.                              *)
(***************************************************************************)
\* the request uploads two valid .cif files, its form values convert, and
\* its numeric parameters are within the validated ranges
ValidRequest(rq) ==
    /\ ValidateFileUpload(rq.substrate_file).is_valid
    /\ ValidateFileUpload(rq.adsorbate_file).is_valid
    /\ ~FormRaises(rq.form)
    /\ \A k \in 1..Len(NumericValidations) :
          ~OutOfRange(FormParams(rq.form), NumericValidations[k])
    /\ FormParams(rq.form)["surface_axis"].int \in {0, 1, 2}

\* C30: for every /run-calculation request that uploads two valid .cif
\* files and whose numeric parameters are within the validated ranges, the
\* parameter dictionary built by the handler passes
\* validate_calculation_params, and a background calculation is started
\* with a success response carrying the session_id.
C30_ValidRequestStarts ==
    (response.sent /\ ValidRequest(request))
        => /\ response.success
           /\ response.code = 200
           /\ response.session_id \in SessionIds
           /\ task[response.session_id].pc # "idle"

====
